---- MODULE Spec2Model ----
(***************************************************************************)
(* A model of the log viewer front end: App (file selection, analysis      *)
(* panel ownership), LogViewer (entry list, text selection), the           *)
(* AIAnalysisPanel analysis controller and the AgentAnalysisPanel          *)
(* controller.  The execution model is React's: every handler and every    *)
(* continuation of an awaited network call runs to completion as one       *)
(* step; component state lives with the mounted component instance.        *)
(*                                                                         *)
(* JavaScript strings are sequences of characters or of message tokens,    *)
(* '' is <<>> and + is \o.  Other JavaScript values are tagged records.    *)
(***************************************************************************)
EXTENDS Integers, Sequences, FiniteSets, TLC

(***************************************************************************)
(* Bounds of the model                                                     *)
(***************************************************************************)
\* accepted analysis submissions of the AIAnalysisPanel in one run
MaxRequests == 3
\* mounts of the AIAnalysisPanel in one run
MaxMounts == 2
\* accepted submissions of the AgentAnalysisPanel in one run
MaxAgentRequests == 2
\* whitespace characters before and after a selection's text
MaxPad == 1

(***************************************************************************)
(* JavaScript values                                                       *)
(***************************************************************************)
Undefined == [t |-> "undefined"]

Null == [t |-> "null"]

Bool(b) == [t |-> "boolean", v |-> b]

Str(s) == [t |-> "string", v |-> s]

Num(n) == [t |-> "number", v |-> n]

\* x.f for a value x that is neither undefined nor null
Get(x, f) == IF x.t = "object" /\ f \in DOMAIN x THEN x[f] ELSE Undefined

\* ToBoolean, as used by `if (x)`, `!x`, `x && y`, `x || y`
Truthy(x) ==
  CASE x.t = "undefined" -> FALSE
    [] x.t = "null" -> FALSE
    [] x.t = "boolean" -> x.v
    [] x.t = "string" -> x.v # <<>>
    [] x.t = "number" -> x.v # 0
    [] OTHER -> TRUE

IsSpace(c) == c = " "

RECURSIVE TrimStart(_)
TrimStart(s) ==
  IF s = <<>> THEN <<>>
  ELSE IF IsSpace(Head(s)) THEN TrimStart(Tail(s)) ELSE s

RECURSIVE TrimEnd(_)
TrimEnd(s) ==
  IF s = <<>> THEN <<>>
  ELSE IF IsSpace(s[Len(s)]) THEN TrimEnd(SubSeq(s, 1, Len(s) - 1)) ELSE s

\* String.prototype.trim
Trim(s) == TrimEnd(TrimStart(s))

RECURSIVE Rep(_, _)
Rep(c, n) == IF n <= 0 THEN <<>> ELSE <<c>> \o Rep(c, n - 1)

(***************************************************************************)
(* The analysis endpoint's answers.  A fetch either rejects (network       *)
(* error) or resolves with a status (ok = 2xx) and a body; response.json() *)
(* throws when the body is absent or is not JSON.                          *)
(***************************************************************************)
Envelope(dm, da, su, er, an) ==
  [t |-> "object", demo_mode |-> dm, demo_analysis |-> da, success |-> su,
   error |-> er, analysis |-> an]

DemoAnalysis(recs) ==
  [t |-> "object", summary |-> Str(<<"Configure an API key">>), recommendations |-> recs]

Recommendations == [t |-> "array", v |-> <<Str(<<"Set DEEPSEEK_API_KEY">>)>>]

Narrative == Str(<<"The pool was exhausted">>)

Structured ==
  [t |-> "object", summary |-> Str(<<"Database connection pool exhausted">>),
   severity |-> Str(<<"high">>)]

ServerError == Str(<<"quota exceeded">>)

\* 2xx bodies: every combination of the envelope's discriminating fields.
\* demo_analysis accompanies demo_mode and analysis accompanies success: true.
Envelopes ==
  { Envelope(dm, da, su, er, an) :
      dm \in {Bool(TRUE)}, da \in {DemoAnalysis(Undefined), DemoAnalysis(Recommendations)},
      su \in {Undefined, Bool(FALSE), Bool(TRUE)}, er \in {Undefined, ServerError},
      an \in {Undefined, Narrative} }
  \cup
  { Envelope(dm, Undefined, su, er, an) :
      dm \in {Undefined, Bool(FALSE)}, su \in {Undefined, Bool(FALSE)},
      er \in {Undefined, ServerError}, an \in {Undefined, Narrative, Structured} }
  \cup
  { Envelope(dm, Undefined, Bool(TRUE), er, an) :
      dm \in {Undefined, Bool(FALSE)}, er \in {Undefined, ServerError},
      an \in {Narrative, Structured} }

\* 2xx bodies of the shapes the analysis endpoint documents, and a demo answer
\* that carries success and analysis as well
WireEnvelopes ==
  { Envelope(Bool(TRUE), DemoAnalysis(Undefined), Undefined, Undefined, Undefined),
    Envelope(Bool(TRUE), DemoAnalysis(Recommendations), Undefined, Undefined, Undefined),
    Envelope(Bool(TRUE), DemoAnalysis(Recommendations), Bool(TRUE), Undefined, Narrative),
    Envelope(Undefined, Undefined, Bool(FALSE), ServerError, Undefined),
    Envelope(Undefined, Undefined, Bool(TRUE), Undefined, Narrative),
    Envelope(Undefined, Undefined, Bool(TRUE), Undefined, Structured) }

\* non-2xx bodies that parse: {error: e}, {error: ''} and {}
ErrorBodies ==
  { Envelope(Undefined, Undefined, Undefined, er, Undefined) :
      er \in {Undefined, Str(<<>>), ServerError} }

Rejected == [net |-> "reject", ok |-> FALSE, parses |-> FALSE, json |-> Undefined,
             message |-> <<"Failed to fetch">>]

Resolved(ok, parses, json) ==
  [net |-> "resolve", ok |-> ok, parses |-> parses, json |-> json,
   message |-> IF parses THEN <<>> ELSE <<"Unexpected end of JSON input">>]

\* the answers a call to the analysis endpoint can get
AnalyzeResponses ==
  {Rejected}
  \cup { Resolved(TRUE, TRUE, e) : e \in WireEnvelopes }
  \cup { Resolved(FALSE, TRUE, e) : e \in ErrorBodies }
  \cup { Resolved(ok, FALSE, Undefined) : ok \in BOOLEAN }

\* 2xx answers over every envelope
EnvelopeResponses == { Resolved(TRUE, TRUE, e) : e \in Envelopes }

(***************************************************************************)
(* The backend's files and their parsed entries.  Entry i of file f is     *)
(* generated from (f, i); a page holds PerPage entries.                    *)
(***************************************************************************)
\* per_page of every entries request
PerPage == 50
\* entries of the large file (two pages) and of the small file (one page)
LargeTotal == 52
SmallTotal == 3

Files == {1, 2}

FileTotal(f) == IF f = 1 THEN LargeTotal ELSE SmallTotal

FileObj(f) == [t |-> "object", id |-> f]

\* the character a selection made in file f's entries consists of
FileChar(f) == IF f = 1 THEN "a" ELSE "b"

LevelOf(i) ==
  CASE i % 4 = 0 -> Str(<<"E", "R", "R", "O", "R">>)
    [] i % 4 = 1 -> Str(<<"I", "N", "F", "O">>)
    [] i % 4 = 2 -> Str(<<"W", "A", "R", "N", "I", "N", "G">>)
    [] OTHER -> Undefined

RawLineOf(f, i) ==
  CASE i % 3 = 0 -> <<FileChar(f), " ", "T", "i", "m", "e", "o", "u", "t">>
    [] i % 3 = 1 -> <<FileChar(f), " ", "o", "k">>
    [] OTHER -> <<FileChar(f), " ", "u", "p">>

MessageOf(i) ==
  CASE i % 3 = 0 -> Str(<<"t", "i", "m", "e", "d">>)
    [] i % 3 = 1 -> Str(<<>>)
    [] OTHER -> Undefined

EntryOf(f, i) ==
  [id |-> f * 1000 + i, file |-> f, line_number |-> i, level |-> LevelOf(i),
   raw_line |-> RawLineOf(f, i), message |-> MessageOf(i)]

Min(a, b) == IF a < b THEN a ELSE b

Max(a, b) == IF a > b THEN a ELSE b

Ceil(a, b) == (a + b - 1) \div b

ServerPages(f) == Ceil(FileTotal(f), PerPage)

\* GET /files/{f}/entries?page=p&per_page=50
ServerEntries(f, p) ==
  LET lo == (p - 1) * PerPage + 1
      hi == Min(p * PerPage, FileTotal(f))
  IN  [k \in 1..Max(hi - lo + 1, 0) |-> EntryOf(f, lo + k - 1)]

ServerPagination(f, p) ==
  [page |-> p, per_page |-> PerPage, total |-> FileTotal(f), pages |-> ServerPages(f)]

(***************************************************************************)
(* State                                                                   *)
(***************************************************************************)
VARIABLES
  root,               \* the component the page renders: "App", "AgentHost" or both panels "SideBySide"
  serverFiles,        \* ids of the files the backend stores
  \* App
  tab,                \* the active tab of App's Tabs: "upload" or "viewer"
  files,              \* ids of the files in App's file list
  selectedFile,       \* Null or the selected file object
  analysisText,       \* the text handed to the analysis panel
  showAnalysisPanel,
  appLoading, appError,
  appCalls,           \* fetchFiles / loadFileContent / deleteFile calls awaiting their response
  \* LogViewer
  entries, lvLoading, lvError, searchTerm, levelFilter, currentPage, pagination,
  selectedText,
  viewerInst,         \* the mounted LogViewer instance
  entryCalls,         \* loadEntries calls awaiting their response
  \* AIAnalysisPanel
  analysis, loading, error, customQuestion,
  panelInst,          \* the mounted AIAnalysisPanel instance
  analyzeCalls,       \* analyzeText calls awaiting their response
  suggestions,        \* the suggested questions the panel holds
  suggestCalls,       \* loadSuggestions calls awaiting their response
  config,             \* the AI configuration the panel holds
  configCalls,        \* loadConfig calls awaiting their response
  \* AgentAnalysisPanel
  fileId, symptoms, agentAnalysis, agentLoading, agentError,
  agentCalls,         \* agentAnalyze calls awaiting their response
  \* history of the rendered root's analysis controller
  reqSeq,             \* accepted submissions so far; a submission's sequence number
  delivered,          \* the answered calls (sequence number, panel instance), in order of arrival
  shown,              \* the submission whose answer produced the panel's state, 0 if none
  lastResp,           \* the answer that produced the panel's state
  prevOutcome         \* the panel's outcome when the last accepted submit was made

appVars ==
  <<tab, files, selectedFile, analysisText, showAnalysisPanel, appLoading, appError,
    appCalls>>

viewerVars ==
  <<entries, lvLoading, lvError, searchTerm, levelFilter, currentPage, pagination,
    selectedText, viewerInst, entryCalls>>

panelVars == <<analysis, loading, error, customQuestion, panelInst, analyzeCalls>>

agentVars == <<fileId, symptoms, agentAnalysis, agentLoading, agentError, agentCalls>>

suggestVars == <<suggestions, suggestCalls, config, configCalls>>

historyVars == <<reqSeq, delivered, shown, lastResp, prevOutcome>>

vars ==
  <<root, serverFiles, appVars, viewerVars, panelVars, suggestVars, agentVars, historyVars>>

\* TabsContent renders its children only while its tab is the active one, and
\* App renders the panel only while showAnalysisPanel is set.
ViewerMounted == root = "App" /\ tab = "viewer"

PanelMounted == ViewerMounted /\ showAnalysisPanel

\* fileId={selectedFile?.id}
PanelFileId == IF selectedFile = Null THEN Undefined ELSE Num(selectedFile.id)

(***************************************************************************)
(* Result classification: the decision order of renderAnalysisResult       *)
(***************************************************************************)
\* a classification that looks at success before demo_mode
normalizeSuccessFirst(raw) ==
  IF ~Truthy(raw.success)
  THEN [variant |-> "Failure", content |-> raw.error]
  ELSE IF Truthy(raw.demo_mode)
       THEN [variant |-> "Demo", content |-> raw.demo_analysis.summary]
       ELSE [variant |-> "Success", content |-> raw.analysis]

\* a classification whose Failure shows a fixed message
normalizeGenericError(raw) ==
  IF Truthy(raw.demo_mode)
  THEN [variant |-> "Demo", content |-> raw.demo_analysis.summary]
  ELSE IF ~Truthy(raw.success)
       THEN [variant |-> "Failure", content |-> Str(<<"Analysis failed">>)]
       ELSE [variant |-> "Success", content |-> raw.analysis]

normalize(raw) ==
  IF Truthy(raw.demo_mode)
  THEN [variant |-> "Demo", content |-> raw.demo_analysis.summary]
  ELSE IF ~Truthy(raw.success)
       THEN [variant |-> "Failure", content |-> raw.error]
       ELSE [variant |-> "Success", content |-> raw.analysis]

agentNormalize(raw) ==
  IF Truthy(raw.demo_mode)
  THEN [variant |-> "Demo", content |-> raw.demo_analysis.summary]
  ELSE IF ~Truthy(raw.success)
       THEN [variant |-> "Failure", content |-> raw.error]
       ELSE [variant |-> "Success", content |-> raw.analysis]

\* What a panel with state (a, l, e) shows: the spinner, the error banner,
\* the rendered result; "Conflict" when the banner and a result show together.
OutcomeOf(a, l, e, variant) ==
  IF l THEN "Loading"
  ELSE IF e # <<>> THEN (IF a = Null THEN "Failure" ELSE "Conflict")
       ELSE IF a = Null THEN "Idle" ELSE variant

\* a classification that stays Demo once a demo answer was shown
PanelOutcomeSticky ==
  OutcomeOf(analysis, loading, error,
            IF analysis = Null THEN "Idle"
            ELSE IF prevOutcome = "Demo" THEN "Demo" ELSE normalize(analysis).variant)

\* a classification that shows Demo while the configuration is not configured
PanelOutcomeByConfig ==
  OutcomeOf(analysis, loading, error,
            IF analysis = Null THEN "Idle"
            ELSE IF ~Truthy(Get(config, "configured")) THEN "Demo"
                 ELSE normalize(analysis).variant)

PanelOutcome ==
  OutcomeOf(analysis, loading, error,
            IF analysis = Null THEN "Idle" ELSE normalize(analysis).variant)

AgentOutcome ==
  OutcomeOf(agentAnalysis, agentLoading, agentError,
            IF agentAnalysis = Null THEN "Idle" ELSE agentNormalize(agentAnalysis).variant)

(***************************************************************************)
(* AIAnalysisPanel: analyzeText                                            *)
(***************************************************************************)
NoResp == [net |-> "none", ok |-> FALSE, parses |-> FALSE, json |-> Undefined,
           message |-> <<>>]

\* a start that leaves the previous result in place
analyzeTextStartKeepsResult(st) == [analysis |-> st.analysis, loading |-> TRUE, error |-> <<>>]

\* a start that leaves the previous error in place
analyzeTextStartKeepsError(st) == [analysis |-> Null, loading |-> TRUE, error |-> st.error]

\* setLoading(true); setError(''); setAnalysis(null)
analyzeTextStart(st) == [analysis |-> Null, loading |-> TRUE, error |-> <<>>]

\* a settle whose setLoading(false) is reached on the try path only
analyzeTextSettleNoFinally(st, r) ==
  IF r.net = "reject"
  THEN [st EXCEPT !.error = <<"Failed to analyze text: ">> \o r.message]
  ELSE IF r.ok
       THEN IF r.parses
            THEN [st EXCEPT !.analysis = r.json, !.loading = FALSE]
            ELSE [st EXCEPT !.error = <<"Failed to analyze text: ">> \o r.message]
       ELSE [st EXCEPT !.error = <<"Failed to analyze text">>, !.loading = FALSE]

\* a settle that also raises the banner for a success: false envelope
analyzeTextSettleAlsoBanner(st, r) ==
  LET after ==
        IF r.net = "reject"
        THEN [st EXCEPT !.error = <<"Failed to analyze text: ">> \o r.message]
        ELSE IF r.ok
             THEN IF r.parses
                  THEN [st EXCEPT !.analysis = r.json,
                                  !.error = IF Truthy(r.json.success) THEN <<>>
                                            ELSE <<"Failed to analyze text">>]
                  ELSE [st EXCEPT !.error = <<"Failed to analyze text: ">> \o r.message]
             ELSE [st EXCEPT !.error = <<"Failed to analyze text">>]
  IN  [after EXCEPT !.loading = FALSE]

\* a settle that reports nothing for a non-2xx answer
analyzeTextSettleSilent(st, r) ==
  LET after ==
        IF r.net = "reject"
        THEN [st EXCEPT !.error = <<"Failed to analyze text: ">> \o r.message]
        ELSE IF r.ok
             THEN IF r.parses
                  THEN [st EXCEPT !.analysis = r.json]
                  ELSE [st EXCEPT !.error = <<"Failed to analyze text: ">> \o r.message]
             ELSE st
  IN  [after EXCEPT !.loading = FALSE]

\* the try / catch / finally around the fetch, for the answer r
analyzeTextSettle(st, r) ==
  LET after ==
        IF r.net = "reject"
        THEN [st EXCEPT !.error = <<"Failed to analyze text: ">> \o r.message]
        ELSE IF r.ok
             THEN IF r.parses
                  THEN [st EXCEPT !.analysis = r.json]
                  ELSE [st EXCEPT !.error = <<"Failed to analyze text: ">> \o r.message]
             ELSE [st EXCEPT !.error = <<"Failed to analyze text">>]
  IN  [after EXCEPT !.loading = FALSE]

\* state shared by every instance: any answer is applied to the shown panel
PanelAppliesToAnyInstance(c) == PanelMounted

\* a component's state setters act on the mounted instance that made the call
PanelApplies(c) == PanelMounted /\ c.inst = panelInst

analyzeText(text, issueDescription) ==
  IF text = <<>>
  THEN UNCHANGED <<analysis, loading, error, analyzeCalls, historyVars>>
  ELSE LET st == analyzeTextStart([analysis |-> analysis, loading |-> loading,
                                   error |-> error])
       IN  /\ analysis' = st.analysis
           /\ loading' = st.loading
           /\ error' = st.error
           /\ analyzeCalls' = analyzeCalls \cup
                {[seq |-> reqSeq + 1, inst |-> panelInst, text |-> text,
                  file_id |-> PanelFileId, issue_description |-> issueDescription]}
           /\ reqSeq' = reqSeq + 1
           /\ prevOutcome' = PanelOutcome
           /\ shown' = 0
           /\ lastResp' = NoResp
           /\ UNCHANGED delivered

\* the panel's controls are rendered when selectedText is non-empty
PanelControls == PanelMounted /\ analysisText # <<>>

\* an Analyze button that stays enabled while loading
ClickAnalyzeWhileLoading ==
  /\ PanelControls
  /\ reqSeq < MaxRequests
  /\ analyzeText(analysisText, <<>>)
  /\ UNCHANGED <<root, suggestVars, serverFiles, appVars, viewerVars, agentVars, customQuestion, panelInst>>

\* the Analyze button, disabled={loading}
ClickAnalyze ==
  /\ PanelControls
  /\ ~loading
  /\ reqSeq < MaxRequests
  /\ analyzeText(analysisText, <<>>)
  /\ UNCHANGED <<root, suggestVars, serverFiles, appVars, viewerVars, agentVars, customQuestion, panelInst>>

Questions == {<<>>, <<" ">>, <<"w", "h", "y">>, <<" ", "w", "h", "y", " ">>}

\* the question Textarea's onChange
TypeQuestion(q) ==
  /\ PanelControls
  /\ customQuestion # q
  /\ customQuestion' = q
  /\ UNCHANGED <<root, suggestVars, serverFiles, appVars, viewerVars, agentVars, historyVars,
                 analysis, loading, error, panelInst, analyzeCalls>>

\* an Ask AI that sends the question as typed
handleCustomAnalysisUntrimmed ==
  /\ PanelControls
  /\ ~(loading \/ Trim(customQuestion) = <<>>)
  /\ reqSeq < MaxRequests
  /\ IF analysisText # <<>> /\ Trim(customQuestion) # <<>>
     THEN /\ analyzeText(analysisText, customQuestion)
          /\ customQuestion' = <<>>
     ELSE UNCHANGED <<panelVars, historyVars>>
  /\ UNCHANGED <<root, suggestVars, serverFiles, appVars, viewerVars, agentVars, panelInst>>

\* the Ask AI button, disabled={loading || !customQuestion.trim()}
handleCustomAnalysis ==
  /\ PanelControls
  /\ ~(loading \/ Trim(customQuestion) = <<>>)
  /\ reqSeq < MaxRequests
  /\ IF analysisText # <<>> /\ Trim(customQuestion) # <<>>
     THEN /\ analyzeText(analysisText, Trim(customQuestion))
          /\ customQuestion' = <<>>
     ELSE UNCHANGED <<panelVars, historyVars>>
  /\ UNCHANGED <<root, suggestVars, serverFiles, appVars, viewerVars, agentVars, panelInst>>

\* an answer handling that sends the call again after a rejected fetch
AnalyzeResponseRetries(c, r) ==
  /\ c \in analyzeCalls
  /\ analyzeCalls' = IF r.net = "reject" THEN analyzeCalls ELSE analyzeCalls \ {c}
  /\ delivered' = Append(delivered, [seq |-> c.seq, inst |-> c.inst])
  /\ IF PanelApplies(c)
     THEN LET st == analyzeTextSettle([analysis |-> analysis, loading |-> loading,
                                       error |-> error], r)
          IN  /\ analysis' = st.analysis
              /\ loading' = st.loading
              /\ error' = st.error
              /\ shown' = c.seq
              /\ lastResp' = r
     ELSE UNCHANGED <<analysis, loading, error, shown, lastResp>>
  /\ UNCHANGED <<root, suggestVars, serverFiles, appVars, viewerVars, agentVars, customQuestion,
                 panelInst, reqSeq, prevOutcome>>

\* the answer r to the call c arrives: the rest of analyzeText runs
AnalyzeResponse(c, r) ==
  /\ c \in analyzeCalls
  /\ analyzeCalls' = analyzeCalls \ {c}
  /\ delivered' = Append(delivered, [seq |-> c.seq, inst |-> c.inst])
  /\ IF PanelApplies(c)
     THEN LET st == analyzeTextSettle([analysis |-> analysis, loading |-> loading,
                                       error |-> error], r)
          IN  /\ analysis' = st.analysis
              /\ loading' = st.loading
              /\ error' = st.error
              /\ shown' = c.seq
              /\ lastResp' = r
     ELSE UNCHANGED <<analysis, loading, error, shown, lastResp>>
  /\ UNCHANGED <<root, suggestVars, serverFiles, appVars, viewerVars, agentVars, customQuestion, panelInst,
                 reqSeq, prevOutcome>>

(***************************************************************************)
(* AIAnalysisPanel: suggestions.  The effect on [fileId] runs when the     *)
(* panel mounts and when its fileId prop changes.                          *)
(***************************************************************************)
SuggestCall(inst, f) == [inst |-> inst, file |-> f]

\* the loadConfig call of the effect run for the fileId prop fid: GET /config
\* takes no parameter, so the calls of one panel instance are alike and the
\* set holds them as one
ConfigCall(inst, fid) == [inst |-> inst]

\* loadConfig(); if (fileId) loadSuggestions()
panelEffect(inst, fid) ==
  /\ configCalls' = configCalls \cup {ConfigCall(inst, fid)}
  /\ suggestCalls' = IF Truthy(fid) THEN suggestCalls \cup {SuggestCall(inst, fid.v)}
                     ELSE suggestCalls

\* the suggestions the backend has for file f: four for file 1, two for the
\* other, each naming its file
SuggestionsOf(f) ==
  [k \in 1..(IF f = 1 THEN 4 ELSE 2) |->
     <<"w", "h", "y", " ", FileChar(f)>> \o Rep("?", k)]

\* answers to GET /suggestions/{fileId}: 2xx with a suggestions list, 2xx
\* without one, a non-2xx status, a rejected fetch
SuggestResults == {"ok", "bare", "status", "reject"}

\* the answer r to the call c arrives: the rest of loadSuggestions runs
SuggestionsResponse(c, r) ==
  /\ c \in suggestCalls
  /\ suggestCalls' = suggestCalls \ {c}
  /\ suggestions' =
       IF PanelMounted /\ c.inst = panelInst /\ r \in {"ok", "bare"}
       THEN (IF r = "ok" THEN SuggestionsOf(c.file) ELSE <<>>)
       ELSE suggestions
  /\ UNCHANGED <<root, serverFiles, appVars, viewerVars, panelVars, agentVars, historyVars,
                 config, configCalls>>

\* answers to GET /config: 2xx with configured true or false, a non-2xx
\* status, a 2xx body that is not JSON, a rejected fetch
ConfigResults == {"configured", "unconfigured", "status", "garbled", "reject"}

ConfigOf(r) == [t |-> "object", configured |-> Bool(r = "configured")]

\* the answer r to the call c arrives: the rest of loadConfig runs
ConfigResponse(c, r) ==
  /\ c \in configCalls
  /\ configCalls' = configCalls \ {c}
  /\ config' =
       IF PanelMounted /\ c.inst = panelInst /\ r \in {"configured", "unconfigured"}
       THEN ConfigOf(r)
       ELSE config
  /\ UNCHANGED <<root, serverFiles, appVars, viewerVars, panelVars, agentVars, historyVars,
                 suggestions, suggestCalls>>

\* the caption under the panel's title, by config?.configured
Caption ==
  IF Truthy(Get(config, "configured"))
  THEN "Powered by DeepSeek AI"
  ELSE "Demo Mode - Configure API key for full functionality"

\* a list that offers every suggestion
SuggestionsShownAll == {suggestions[i] : i \in 1..Len(suggestions)}

\* the suggestion buttons shown: suggestions.slice(0, 3)
SuggestionsShown == {suggestions[i] : i \in 1..Min(Len(suggestions), 3)}

\* a suggestion button, disabled={loading}
handleSuggestionClick(suggestion) ==
  /\ PanelControls
  /\ suggestion \in SuggestionsShown
  /\ ~loading
  /\ reqSeq < MaxRequests
  /\ analyzeText(analysisText, suggestion)
  /\ UNCHANGED <<root, suggestVars, serverFiles, appVars, viewerVars, agentVars, customQuestion,
                 panelInst>>

(***************************************************************************)
(* LogViewer: text selection and the analyze button                        *)
(***************************************************************************)
\* the least trimmed length a selection must exceed
MinSelectionLen == 10

SelLengths ==
  {0, MinSelectionLen - 5, MinSelectionLen, MinSelectionLen + 1, MinSelectionLen + 8}

\* window.getSelection().toString() after a pointer release in the entry list:
\* text of the displayed entries, possibly with surrounding whitespace
SelectableTexts(es) ==
  { Rep(" ", l) \o Rep(FileChar(es[k].file), n) \o Rep(" ", r) :
      k \in DOMAIN es, n \in SelLengths, l \in 0..MaxPad, r \in 0..MaxPad }

\* the entry list (with its onMouseUp) is rendered in this branch only
EntryListShown ==
  /\ ViewerMounted
  /\ selectedFile # Null
  /\ ~lvLoading
  /\ lvError = <<>>
  /\ entries # <<>>

\* a capture that also takes a selection of exactly the least length
captureAtLeast(t, held) ==
  LET text == Trim(t)
  IN  IF text # <<>> /\ Len(text) >= MinSelectionLen THEN text ELSE held

\* the selection captured from the window selection t, given the capture so far
capture(t, held) ==
  LET text == Trim(t)
  IN  IF text # <<>> /\ Len(text) > MinSelectionLen THEN text ELSE held

handleTextSelection(t) ==
  /\ EntryListShown
  /\ selectedText' = capture(t, selectedText)
  /\ UNCHANGED <<root, suggestVars, serverFiles, appVars, panelVars, agentVars, historyVars, entries, lvLoading,
                 lvError, searchTerm, levelFilter, currentPage, pagination, viewerInst,
                 entryCalls>>

\* a mount that takes over the session of the panel shown before
PanelResetKeepsSession ==
  /\ analysis' = analysis
  /\ loading' = loading
  /\ error' = error
  /\ customQuestion' = customQuestion
  /\ suggestions' = <<>>
  /\ config' = Null
  /\ shown' = shown
  /\ lastResp' = lastResp
  /\ prevOutcome' = prevOutcome

\* useState initial values of a freshly mounted AIAnalysisPanel
PanelReset ==
  /\ analysis' = Null
  /\ loading' = FALSE
  /\ error' = <<>>
  /\ customQuestion' = <<>>
  /\ suggestions' = <<>>
  /\ config' = Null
  /\ shown' = 0
  /\ lastResp' = NoResp
  /\ prevOutcome' = "Idle"

\* LogViewer's analyze button (rendered when selectedText is non-empty) calls
\* App's handleAnalyzeRequest; the panel mounts if it was not shown
handleAnalyze ==
  /\ ViewerMounted
  /\ selectedFile # Null
  /\ selectedText # <<>>
  /\ analysisText' = selectedText
  /\ showAnalysisPanel' = TRUE
  /\ IF showAnalysisPanel
     THEN UNCHANGED <<panelVars, suggestVars, historyVars>>
     ELSE /\ panelInst < MaxMounts
          /\ panelInst' = panelInst + 1
          /\ PanelReset
          /\ panelEffect(panelInst + 1, PanelFileId)
          /\ UNCHANGED <<analyzeCalls, reqSeq, delivered>>
  /\ UNCHANGED <<root, serverFiles, tab, files, selectedFile, appLoading, appError,
                 appCalls, viewerVars, agentVars>>

\* the panel's Close button: onClose={() => setShowAnalysisPanel(false)};
\* the panel unmounts and its state is gone
closePanel ==
  /\ PanelControls
  /\ showAnalysisPanel' = FALSE
  /\ PanelReset
  /\ UNCHANGED <<root, suggestCalls, configCalls, serverFiles, tab, files, selectedFile,
                 appLoading, appError, analysisText, appCalls, viewerVars,
                 agentVars, panelInst, analyzeCalls, reqSeq, delivered>>

(***************************************************************************)
(* AgentAnalysisPanel: agentAnalyze                                        *)
(***************************************************************************)
\* setLoading(true); setError(''); setAnalysis(null)
agentAnalyzeStart(st) == [analysis |-> Null, loading |-> TRUE, error |-> <<>>]

\* errorData.error || 'Failed to analyze logs'
agentErrorMessage(errorData) ==
  IF Truthy(errorData.error) THEN errorData.error.v ELSE <<"Failed to analyze logs">>

\* a settle in which a failing response.json() of a non-2xx answer escapes
agentAnalyzeSettleErrorBodyEscapes(st, r) ==
  IF r.net = "reject"
  THEN [st EXCEPT !.error = <<"Failed to analyze logs: ">> \o r.message, !.loading = FALSE]
  ELSE IF ~r.parses
       THEN IF r.ok
            THEN [st EXCEPT !.error = <<"Failed to analyze logs: ">> \o r.message,
                            !.loading = FALSE]
            ELSE st
       ELSE IF r.ok
            THEN [st EXCEPT !.analysis = r.json, !.loading = FALSE]
            ELSE [st EXCEPT !.error = agentErrorMessage(r.json), !.loading = FALSE]

agentAnalyzeSettle(st, r) ==
  LET after ==
        IF r.net = "reject"
        THEN [st EXCEPT !.error = <<"Failed to analyze logs: ">> \o r.message]
        ELSE IF ~r.parses
             THEN [st EXCEPT !.error = <<"Failed to analyze logs: ">> \o r.message]
             ELSE IF r.ok
                  THEN [st EXCEPT !.analysis = r.json]
                  ELSE [st EXCEPT !.error = agentErrorMessage(r.json)]
  IN  [after EXCEPT !.loading = FALSE]

Symptoms == {<<>>, <<" ">>, <<"o", "o", "m">>, <<" ", "o", "o", "m">>}

\* the symptoms Textarea's onChange
TypeSymptoms(s) ==
  /\ root = "AgentHost"
  /\ symptoms # s
  /\ symptoms' = s
  /\ UNCHANGED <<root, suggestVars, serverFiles, appVars, viewerVars, panelVars, historyVars, fileId,
                 agentAnalysis, agentLoading, agentError, agentCalls>>

\* the start button, disabled={loading || !symptoms.trim()}
agentAnalyze ==
  /\ root = "AgentHost"
  /\ ~(agentLoading \/ Trim(symptoms) = <<>>)
  /\ reqSeq < MaxAgentRequests
  /\ IF ~Truthy(fileId) \/ Trim(symptoms) = <<>>
     THEN UNCHANGED <<agentAnalysis, agentLoading, agentError, agentCalls, historyVars>>
     ELSE LET st == agentAnalyzeStart([analysis |-> agentAnalysis,
                                       loading |-> agentLoading, error |-> agentError])
          IN  /\ agentAnalysis' = st.analysis
              /\ agentLoading' = st.loading
              /\ agentError' = st.error
              /\ agentCalls' = agentCalls \cup
                   {[seq |-> reqSeq + 1, file_id |-> fileId, symptoms |-> Trim(symptoms)]}
              /\ reqSeq' = reqSeq + 1
              /\ prevOutcome' = AgentOutcome
              /\ shown' = 0
              /\ lastResp' = NoResp
              /\ UNCHANGED delivered
  /\ UNCHANGED <<root, suggestVars, serverFiles, appVars, viewerVars, panelVars, fileId, symptoms>>

AgentResponse(c, r) ==
  /\ c \in agentCalls
  /\ agentCalls' = agentCalls \ {c}
  /\ delivered' = Append(delivered, [seq |-> c.seq, inst |-> 0])
  /\ LET st == agentAnalyzeSettle([analysis |-> agentAnalysis, loading |-> agentLoading,
                                   error |-> agentError], r)
     IN  /\ agentAnalysis' = st.analysis
         /\ agentLoading' = st.loading
         /\ agentError' = st.error
  /\ shown' = c.seq
  /\ lastResp' = r
  /\ UNCHANGED <<root, suggestVars, serverFiles, appVars, viewerVars, panelVars, fileId, symptoms, reqSeq,
                 prevOutcome>>

(***************************************************************************)
(* The analysis session: the page renders App with a file open in the      *)
(* viewer tab and its first page of entries displayed, or it renders the   *)
(* AgentAnalysisPanel.                                                     *)
(***************************************************************************)
LevelAll == <<"a", "l", "l">>

InitHistory ==
  /\ reqSeq = 0
  /\ delivered = <<>>
  /\ shown = 0
  /\ lastResp = NoResp
  /\ prevOutcome = "Idle"

InitPanel ==
  /\ analysis = Null
  /\ loading = FALSE
  /\ error = <<>>
  /\ customQuestion = <<>>
  /\ panelInst = 0
  /\ analyzeCalls = {}
  /\ suggestions = <<>>
  /\ suggestCalls = {}
  /\ config = Null
  /\ configCalls = {}

InitAgent ==
  /\ symptoms = <<>>
  /\ agentAnalysis = Null
  /\ agentLoading = FALSE
  /\ agentError = <<>>
  /\ agentCalls = {}

InitViewerEmpty ==
  /\ entries = <<>>
  /\ lvLoading = FALSE
  /\ lvError = <<>>
  /\ searchTerm = <<>>
  /\ levelFilter = LevelAll
  /\ currentPage = 1
  /\ pagination = Null
  /\ selectedText = <<>>
  /\ entryCalls = {}

\* file f open in the viewer tab, page 1 loaded, nothing selected yet
InitViewing(f) ==
  /\ root = "App"
  /\ serverFiles = Files
  /\ tab = "viewer"
  /\ files = Files
  /\ selectedFile = FileObj(f)
  /\ analysisText = <<>>
  /\ showAnalysisPanel = FALSE
  /\ appCalls = {}
  /\ appLoading = FALSE
  /\ appError = <<>>
  /\ entries = ServerEntries(f, 1)
  /\ lvLoading = FALSE
  /\ lvError = <<>>
  /\ searchTerm = <<>>
  /\ levelFilter = LevelAll
  /\ currentPage = 1
  /\ pagination = ServerPagination(f, 1)
  /\ selectedText = <<>>
  /\ viewerInst = 1
  /\ entryCalls = {}
  /\ fileId = Undefined

InitAgentHost ==
  /\ root = "AgentHost"
  /\ serverFiles = Files
  /\ tab = "upload"
  /\ files = {}
  /\ selectedFile = Null
  /\ analysisText = <<>>
  /\ showAnalysisPanel = FALSE
  /\ appCalls = {}
  /\ appLoading = FALSE
  /\ appError = <<>>
  /\ InitViewerEmpty
  /\ viewerInst = 0
  /\ fileId \in {Undefined, Num(1)}

Init ==
  /\ InitViewing(2) \/ InitAgentHost
  /\ InitPanel
  /\ InitAgent
  /\ InitHistory

Next ==
  \/ \E t \in SelectableTexts(entries) : handleTextSelection(t)
  \/ handleAnalyze
  \/ closePanel
  \/ ClickAnalyze
  \/ \E q \in Questions : TypeQuestion(q)
  \/ handleCustomAnalysis
  \/ \E c \in analyzeCalls, r \in AnalyzeResponses : AnalyzeResponse(c, r)
  \/ \E s \in Symptoms : TypeSymptoms(s)
  \/ agentAnalyze
  \/ \E c \in agentCalls, r \in AnalyzeResponses : AgentResponse(c, r)

Spec == Init /\ [][Next]_vars

\* every call to the analysis endpoint is eventually answered: it resolves,
\* rejects or times out
LiveSpec ==
  /\ Spec
  /\ WF_vars(\E c \in analyzeCalls, r \in AnalyzeResponses : AnalyzeResponse(c, r))
  /\ WF_vars(\E c \in agentCalls, r \in AnalyzeResponses : AgentResponse(c, r))

(***************************************************************************)
(* Classification of every envelope: a panel is open on a captured         *)
(* selection (or the agent panel has its symptoms typed), requests are     *)
(* submitted and answered 2xx with any envelope.                           *)
(***************************************************************************)
InitClassifying ==
  \/ /\ root = "App"
     /\ tab = "viewer"
     /\ files = Files
     /\ selectedFile = FileObj(2)
     /\ analysisText = Rep(FileChar(2), MinSelectionLen + 1)
     /\ showAnalysisPanel = TRUE
     /\ appCalls = {}
     /\ appLoading = FALSE
     /\ appError = <<>>
     /\ serverFiles = Files
     /\ entries = ServerEntries(2, 1)
     /\ lvLoading = FALSE
     /\ lvError = <<>>
     /\ searchTerm = <<>>
     /\ levelFilter = LevelAll
     /\ currentPage = 1
     /\ pagination = ServerPagination(2, 1)
     /\ selectedText = Rep(FileChar(2), MinSelectionLen + 1)
     /\ viewerInst = 1
     /\ entryCalls = {}
     /\ fileId = Undefined
     /\ InitPanel
     /\ InitAgent
  \/ /\ InitAgentHost
     /\ fileId = Num(1)
     /\ InitPanel
     /\ InitAgent

NextClassify ==
  \/ ClickAnalyze
  \/ \E c \in analyzeCalls, r \in EnvelopeResponses : AnalyzeResponse(c, r)
  \/ \E s \in Symptoms : TypeSymptoms(s)
  \/ agentAnalyze
  \/ \E c \in agentCalls, r \in EnvelopeResponses : AgentResponse(c, r)

InitClassify == InitClassifying /\ InitHistory

SpecClassify == InitClassify /\ [][NextClassify]_vars

(***************************************************************************)
(* App and LogViewer: the file list, the tabs, and the entries of the      *)
(* selected file.  A call is a record in appCalls or entryCalls from its   *)
(* fetch until its answer; n entries calls with equal arguments are one     *)
(* record that counts them.                                                *)
(***************************************************************************)
\* calls of App, and of one LogViewer, that may await their answer at once
MaxAppCalls == 1
MaxEntryCalls == 2

\* how a fetch ends: a 2xx answer, a non-2xx answer, a network error
NetResults == {"ok", "fail", "reject"}

\* err.message of the failure caught: a 2xx body that is not JSON ("garbled")
\* makes response.json() reject, a failed fetch rejects with a TypeError
ErrMessage(r) == IF r = "garbled" THEN "Unexpected token" ELSE "Failed to fetch"

LowerChar(c) ==
  CASE c = "E" -> "e" [] c = "R" -> "r" [] c = "O" -> "o" [] c = "I" -> "i"
    [] c = "N" -> "n" [] c = "F" -> "f" [] c = "T" -> "t" [] c = "W" -> "w"
    [] c = "A" -> "a" [] c = "G" -> "g" [] c = "M" -> "m" [] OTHER -> c

toLowerCase(s) == [i \in 1..Len(s) |-> LowerChar(s[i])]

includes(hay, needle) ==
  \E i \in 0..(Len(hay) - Len(needle)) : SubSeq(hay, i + 1, i + Len(needle)) = needle

matchesSearch(entry, search) ==
  \/ includes(toLowerCase(entry.raw_line), toLowerCase(search))
  \/ /\ Truthy(entry.message)
     /\ includes(toLowerCase(entry.message.v), toLowerCase(search))

\* a level filter that compares the level as it is written
matchesLevelCaseSensitive(entry, level) == Truthy(entry.level) /\ entry.level.v = level

matchesLevel(entry, level) ==
  Truthy(entry.level) /\ toLowerCase(entry.level.v) = toLowerCase(level)

\* the client-side filters loadEntries applies to the page it received
filterEntries(es, search, level) ==
  LET bySearch ==
        IF search # <<>> THEN SelectSeq(es, LAMBDA e : matchesSearch(e, search)) ELSE es
  IN  IF level # LevelAll
      THEN SelectSeq(bySearch, LAMBDA e : matchesLevel(e, level))
      ELSE bySearch

AppCall(op, f, sel) == [op |-> op, file |-> f, sel |-> sel]

\* the id of the selected file as a handler's closure holds it, 0 for none
SelectedId == IF selectedFile = Null THEN 0 ELSE selectedFile.id

\* GET /files/{f}/entries?page=..&per_page=50 made by loadEntries(page, search, level)
EntryCall(f, page, search, level) ==
  [file |-> f, page |-> page, search |-> search, level |-> level, n |-> 1]

SameCall(c, a) ==
  c.file = a.file /\ c.page = a.page /\ c.search = a.search /\ c.level = a.level

\* one more call a under way
AddCall(calls, a) ==
  LET same == {c \in calls : SameCall(c, a)}
  IN  IF same = {}
      THEN calls \cup {a}
      ELSE {IF c \in same THEN [c EXCEPT !.n = c.n + 1] ELSE c : c \in calls}

\* one call c answered
TakeCall(calls, c) ==
  (calls \ {c}) \cup (IF c.n > 1 THEN {[c EXCEPT !.n = c.n - 1]} ELSE {})

RECURSIVE InFlight(_)
InFlight(calls) ==
  IF calls = {}
  THEN 0
  ELSE LET c == CHOOSE x \in calls : TRUE IN c.n + InFlight(calls \ {c})

\* loadEntries(page, search, level) of a LogViewer whose selectedFile prop is
\* sel, called `times` times in one step, up to its await
loadEntriesTimes(sel, page, search, level, times) ==
  IF sel = Null \/ times = 0
  THEN UNCHANGED <<lvLoading, lvError, entryCalls>>
  ELSE /\ InFlight(entryCalls) + times <= MaxEntryCalls
       /\ lvLoading' = TRUE
       /\ lvError' = <<>>
       /\ entryCalls' =
            LET a == EntryCall(sel.id, page, search, level)
            IN  IF times = 1 THEN AddCall(entryCalls, a)
                ELSE AddCall(AddCall(entryCalls, a), a)

loadEntries(sel, page, search, level) == loadEntriesTimes(sel, page, search, level, 1)

\* an answer whose pagination counts the filtered entries
EntriesResponseCountsFiltered(c, r) ==
  /\ c \in entryCalls
  /\ r = "ok" => c.file \in serverFiles
  /\ entryCalls' = TakeCall(entryCalls, c)
  /\ CASE r = "ok" ->
            LET kept == filterEntries(ServerEntries(c.file, c.page), c.search, c.level)
            IN  /\ entries' = kept
                /\ pagination' = [ServerPagination(c.file, c.page) EXCEPT
                                    !.total = Len(kept),
                                    !.pages = Ceil(Len(kept), PerPage)]
                /\ UNCHANGED lvError
       [] r = "fail" ->
            /\ lvError' = <<"Failed to load log entries">>
            /\ UNCHANGED <<entries, pagination>>
       [] OTHER ->
            /\ lvError' = <<"Failed to load log entries: ", ErrMessage(r)>>
            /\ UNCHANGED <<entries, pagination>>
  /\ lvLoading' = FALSE
  /\ UNCHANGED <<root, suggestVars, serverFiles, appVars, panelVars, agentVars, historyVars,
                 searchTerm, levelFilter, currentPage, selectedText, viewerInst>>

\* an answer handling that adds the answered page to the entries held
EntriesResponseAppends(c, r) ==
  /\ c \in entryCalls
  /\ r = "ok" => c.file \in serverFiles
  /\ entryCalls' = TakeCall(entryCalls, c)
  /\ CASE r = "ok" ->
            /\ entries' =
                 entries \o filterEntries(ServerEntries(c.file, c.page), c.search, c.level)
            /\ pagination' = ServerPagination(c.file, c.page)
            /\ UNCHANGED lvError
       [] r = "fail" ->
            /\ lvError' = <<"Failed to load log entries">>
            /\ UNCHANGED <<entries, pagination>>
       [] OTHER ->
            /\ lvError' = <<"Failed to load log entries: ", ErrMessage(r)>>
            /\ UNCHANGED <<entries, pagination>>
  /\ lvLoading' = FALSE
  /\ UNCHANGED <<root, suggestVars, serverFiles, appVars, panelVars, agentVars, historyVars,
                 searchTerm, levelFilter, currentPage, selectedText, viewerInst>>

\* an entries request whose failures nothing catches
EntriesResponseUncaught(c, r) ==
  /\ c \in entryCalls
  /\ r = "ok" => c.file \in serverFiles
  /\ entryCalls' = TakeCall(entryCalls, c)
  /\ IF r = "ok"
     THEN /\ entries' = filterEntries(ServerEntries(c.file, c.page), c.search, c.level)
          /\ pagination' = ServerPagination(c.file, c.page)
          /\ lvLoading' = FALSE
     ELSE UNCHANGED <<entries, pagination, lvLoading>>
  /\ UNCHANGED <<root, suggestVars, serverFiles, appVars, panelVars, agentVars, historyVars,
                 lvError, searchTerm, levelFilter, currentPage, selectedText, viewerInst>>

\* the answer of an entries request
EntriesResponse(c, r) ==
  /\ c \in entryCalls
  /\ r = "ok" => c.file \in serverFiles
  /\ entryCalls' = TakeCall(entryCalls, c)
  /\ CASE r = "ok" ->
            /\ entries' = filterEntries(ServerEntries(c.file, c.page), c.search, c.level)
            /\ pagination' = ServerPagination(c.file, c.page)
            /\ UNCHANGED lvError
       [] r = "fail" ->
            /\ lvError' = <<"Failed to load log entries">>
            /\ UNCHANGED <<entries, pagination>>
       [] OTHER ->
            /\ lvError' = <<"Failed to load log entries: ", ErrMessage(r)>>
            /\ UNCHANGED <<entries, pagination>>
  /\ lvLoading' = FALSE
  /\ UNCHANGED <<root, suggestVars, serverFiles, appVars, panelVars, agentVars, historyVars,
                 searchTerm, levelFilter, currentPage, selectedText, viewerInst>>

\* a TabsTrigger: the content of the tab left unmounts and its components'
\* state is gone, the content of the tab entered mounts; a mounted LogViewer
\* runs its effect, and the answers of an unmounted one change nothing
selectTab(t) ==
  /\ root = "App"
  /\ tab # t
  /\ tab' = t
  /\ entries' = <<>>
  /\ searchTerm' = <<>>
  /\ levelFilter' = LevelAll
  /\ currentPage' = 1
  /\ pagination' = Null
  /\ selectedText' = <<>>
  /\ IF t = "viewer"
     THEN /\ viewerInst' = 1
          /\ IF selectedFile = Null
             THEN /\ lvLoading' = FALSE
                  /\ lvError' = <<>>
                  /\ entryCalls' = {}
             ELSE /\ lvLoading' = TRUE
                  /\ lvError' = <<>>
                  /\ entryCalls' = {EntryCall(selectedFile.id, 1, <<>>, LevelAll)}
          /\ IF showAnalysisPanel
             THEN /\ panelInst < MaxMounts
                  /\ panelInst' = panelInst + 1
                  /\ PanelReset
                  /\ panelEffect(panelInst + 1, PanelFileId)
                  /\ UNCHANGED <<analyzeCalls, reqSeq, delivered>>
             ELSE UNCHANGED <<panelVars, suggestVars, historyVars>>
     ELSE /\ viewerInst' = 0
          /\ lvLoading' = FALSE
          /\ lvError' = <<>>
          /\ entryCalls' = {}
          /\ IF showAnalysisPanel
             THEN /\ PanelReset
                  /\ UNCHANGED <<panelInst, analyzeCalls, suggestCalls, configCalls, reqSeq, delivered>>
             ELSE UNCHANGED <<panelVars, suggestVars, historyVars>>
  /\ UNCHANGED <<root, serverFiles, files, selectedFile, analysisText, showAnalysisPanel,
                 appLoading, appError, appCalls, agentVars>>

\* the answer of GET /files: fetchFiles, and the rest of deleteFile when the
\* call was made by it (c.file is the deleted file, c.sel the file that was
\* selected when Delete was clicked); a mounted panel whose fileId prop
\* becomes undefined runs its effect on [fileId]
FetchFilesResponse(c, r) ==
  /\ c \in appCalls
  /\ c.op = "files"
  /\ appCalls' = appCalls \ {c}
  /\ files' = IF r = "ok" THEN serverFiles ELSE files
  /\ appError' = IF r = "reject" THEN <<"Failed to fetch files">> ELSE appError
  /\ selectedFile' = IF c.file # 0 /\ c.sel # 0 /\ c.sel = c.file THEN Null ELSE selectedFile
  /\ IF PanelMounted /\ selectedFile' = Null /\ selectedFile # Null
     THEN panelEffect(panelInst, Undefined)
     ELSE UNCHANGED <<suggestCalls, configCalls>>
  /\ UNCHANGED <<root, suggestions, config, serverFiles, tab, analysisText, showAnalysisPanel,
                 appLoading, viewerVars, panelVars, agentVars, historyVars>>

\* the View button of a file in the upload tab
loadFileContent(f) ==
  /\ root = "App"
  /\ tab = "upload"
  /\ f \in files
  /\ Cardinality(appCalls) < MaxAppCalls
  /\ appLoading' = TRUE
  /\ appCalls' = appCalls \cup {AppCall("view", f, 0)}
  /\ UNCHANGED <<root, suggestVars, serverFiles, tab, files, selectedFile, analysisText,
                 showAnalysisPanel, appError, viewerVars, panelVars, agentVars,
                 historyVars>>

\* the answer of GET /files/{id}: the new selectedFile object reaches a mounted
\* LogViewer, whose effect on [selectedFile, currentPage] loads its entries
LoadFileResponse(c, r) ==
  /\ c \in appCalls
  /\ c.op = "view"
  /\ r = "ok" => c.file \in serverFiles
  /\ appCalls' = appCalls \ {c}
  /\ appLoading' = FALSE
  /\ appError' = IF r = "reject" THEN <<"Failed to load file">> ELSE appError
  /\ IF r = "ok"
     THEN /\ selectedFile' = FileObj(c.file)
          /\ IF ViewerMounted
             THEN loadEntries(FileObj(c.file), currentPage, searchTerm, levelFilter)
             ELSE UNCHANGED <<lvLoading, lvError, entryCalls>>
          /\ IF PanelMounted /\ PanelFileId # Num(c.file)
             THEN panelEffect(panelInst, Num(c.file))
             ELSE UNCHANGED <<suggestCalls, configCalls>>
     ELSE UNCHANGED <<selectedFile, lvLoading, lvError, entryCalls, suggestCalls, configCalls>>
  /\ UNCHANGED <<root, suggestions, config, serverFiles, tab, files, analysisText, showAnalysisPanel,
                 entries, searchTerm, levelFilter, currentPage, pagination, selectedText,
                 viewerInst, panelVars, agentVars, historyVars>>

\* the Delete button of a file in the upload tab
deleteFile(f) ==
  /\ root = "App"
  /\ tab = "upload"
  /\ f \in files
  /\ Cardinality(appCalls) < MaxAppCalls
  /\ appCalls' = appCalls \cup {AppCall("delete", f, SelectedId)}
  /\ UNCHANGED <<root, suggestVars, serverFiles, tab, files, selectedFile, analysisText,
                 showAnalysisPanel, appLoading, appError, viewerVars, panelVars,
                 agentVars, historyVars>>

\* the answer of DELETE /files/{id}; after a 2xx answer deleteFile awaits
\* fetchFiles
DeleteResponse(c, r) ==
  /\ c \in appCalls
  /\ c.op = "delete"
  /\ r = "ok" => c.file \in serverFiles
  /\ serverFiles' = IF r = "ok" THEN serverFiles \ {c.file} ELSE serverFiles
  /\ appCalls' = (appCalls \ {c}) \cup
       (IF r = "ok" THEN {AppCall("files", c.file, c.sel)} ELSE {})
  /\ appError' = IF r = "reject" THEN <<"Failed to delete file">> ELSE appError
  /\ UNCHANGED <<root, suggestVars, tab, files, selectedFile, analysisText, showAnalysisPanel,
                 appLoading, viewerVars, panelVars, agentVars, historyVars>>

\* App as constructed: the upload tab, no file selected, fetchFiles under way
InitApp ==
  /\ root = "App"
  /\ serverFiles = Files
  /\ tab = "upload"
  /\ files = {}
  /\ selectedFile = Null
  /\ analysisText = <<>>
  /\ showAnalysisPanel = FALSE
  /\ appLoading = FALSE
  /\ appError = <<>>
  /\ appCalls = {AppCall("files", 0, 0)}
  /\ InitViewerEmpty
  /\ viewerInst = 0
  /\ fileId = Undefined
  /\ InitPanel
  /\ InitAgent
  /\ InitHistory

NextViewer ==
  \/ \E c \in appCalls, r \in NetResults : FetchFilesResponse(c, r)
  \/ \E t \in {"upload", "viewer"} : selectTab(t)
  \/ \E f \in Files : loadFileContent(f)
  \/ \E c \in appCalls, r \in NetResults : LoadFileResponse(c, r)
  \/ \E f \in Files : deleteFile(f)
  \/ \E c \in appCalls, r \in NetResults : DeleteResponse(c, r)
  \/ \E c \in entryCalls, r \in NetResults : EntriesResponse(c, r)
  \/ \E t \in SelectableTexts(entries) : handleTextSelection(t)
  \/ handleAnalyze
  \/ closePanel

SpecViewer == InitApp /\ [][NextViewer]_vars

(***************************************************************************)
(* LogViewer: the search box, the level filter and the page buttons.  The  *)
(* effect on [selectedFile, currentPage] runs after every render in which  *)
(* one of the two changed, with that render's searchTerm and levelFilter.  *)
(***************************************************************************)
\* what the user types into the search box
SearchTerms == {<<>>, <<"T", "I", "M", "E">>}

\* the level Select's items that are chosen
Levels == {LevelAll, <<"e", "r", "r", "o", "r">>}

\* LogViewer's main return: the search box and the level Select are rendered
ViewerControls == ViewerMounted /\ selectedFile # Null

\* the search Input's onChange
setSearchTerm(s) ==
  /\ ViewerControls
  /\ searchTerm # s
  /\ searchTerm' = s
  /\ UNCHANGED <<root, suggestVars, serverFiles, appVars, panelVars, agentVars, historyVars, entries,
                 lvLoading, lvError, levelFilter, currentPage, pagination, selectedText,
                 viewerInst, entryCalls>>

\* a Search button that fetches the current page and does not reset it
handleSearchKeepsPage ==
  /\ ViewerControls
  /\ loadEntries(selectedFile, currentPage, searchTerm, levelFilter)
  /\ UNCHANGED <<root, suggestVars, serverFiles, appVars, panelVars, agentVars, historyVars, entries,
                 searchTerm, levelFilter, currentPage, pagination, selectedText,
                 viewerInst>>

\* the Search button or Enter: loadEntries(1, ...) by the handler, and once
\* more by the effect when currentPage changed
handleSearch ==
  /\ ViewerControls
  /\ currentPage' = 1
  /\ loadEntriesTimes(selectedFile, 1, searchTerm, levelFilter,
                      IF currentPage # 1 THEN 2 ELSE 1)
  /\ UNCHANGED <<root, suggestVars, serverFiles, appVars, panelVars, agentVars, historyVars, entries,
                 searchTerm, levelFilter, pagination, selectedText, viewerInst>>

\* the level Select's onValueChange
handleFilterChange(newLevel) ==
  /\ ViewerControls
  /\ newLevel # levelFilter
  /\ levelFilter' = newLevel
  /\ currentPage' = 1
  /\ loadEntriesTimes(selectedFile, 1, searchTerm, newLevel,
                      IF currentPage # 1 THEN 2 ELSE 1)
  /\ UNCHANGED <<root, suggestVars, serverFiles, appVars, panelVars, agentVars, historyVars, entries,
                 searchTerm, pagination, selectedText, viewerInst>>

\* the pagination controls are rendered under the entry list
PaginationShown == EntryListShown /\ pagination # Null /\ pagination.pages > 1

\* setCurrentPage(page) by a page button, and the effect that follows
setCurrentPage(page) ==
  /\ currentPage' = page
  /\ loadEntries(selectedFile, page, searchTerm, levelFilter)
  /\ UNCHANGED <<root, suggestVars, serverFiles, appVars, panelVars, agentVars, historyVars, entries,
                 searchTerm, levelFilter, pagination, selectedText, viewerInst>>

\* the previous-page button, disabled={currentPage <= 1}
previousPage ==
  /\ PaginationShown
  /\ ~(currentPage <= 1)
  /\ setCurrentPage(currentPage - 1)

\* the next-page button, disabled={currentPage >= pagination.pages}
nextPage ==
  /\ PaginationShown
  /\ ~(currentPage >= pagination.pages)
  /\ setCurrentPage(currentPage + 1)

\* the large file open in the viewer tab with its first page displayed; with
\* viewing, the user has clicked View on the other file before entering the
\* tab and that call is still under way
InitBrowsing(viewing) ==
  /\ root = "App"
  /\ serverFiles = Files
  /\ tab = "viewer"
  /\ files = Files
  /\ selectedFile = FileObj(1)
  /\ analysisText = <<>>
  /\ showAnalysisPanel = FALSE
  /\ appCalls = IF viewing THEN {AppCall("view", 2, 0)} ELSE {}
  /\ appLoading = viewing
  /\ appError = <<>>
  /\ entries = ServerEntries(1, 1)
  /\ lvLoading = FALSE
  /\ lvError = <<>>
  /\ searchTerm = <<>>
  /\ levelFilter = LevelAll
  /\ currentPage = 1
  /\ pagination = ServerPagination(1, 1)
  /\ selectedText = <<>>
  /\ viewerInst = 1
  /\ entryCalls = {}
  /\ fileId = Undefined
  /\ InitPanel
  /\ InitAgent
  /\ InitHistory

InitEntries == InitBrowsing(FALSE)

NextEntries ==
  \/ \E s \in SearchTerms : setSearchTerm(s)
  \/ handleSearch
  \/ \E l \in Levels : handleFilterChange(l)
  \/ previousPage
  \/ nextPage
  \/ \E c \in entryCalls, r \in NetResults : EntriesResponse(c, r)

\* browsing the entries of the large file
SpecEntries == InitEntries /\ [][NextEntries]_vars

InitSwitch == InitBrowsing(TRUE)

NextSwitch ==
  \/ NextEntries
  \/ \E c \in appCalls, r \in NetResults : LoadFileResponse(c, r)

\* browsing the entries while the answer to View on the other file arrives
SpecSwitch == InitSwitch /\ [][NextSwitch]_vars

(***************************************************************************)
(* AIAnalysisPanel as a component: it is rendered with the selectedText    *)
(* prop its host passes, and the user works its buttons.                   *)
(***************************************************************************)
\* values of the selectedText prop: a captured selection, and strings of
\* white space only
PanelTexts == {Rep("b", MinSelectionLen + 1), <<" ">>, <<" ", " ">>}

\* the panel as mounted, beside the viewer of file 2
InitSubmit ==
  /\ root = "App"
  /\ serverFiles = Files
  /\ tab = "viewer"
  /\ files = Files
  /\ selectedFile = FileObj(2)
  /\ analysisText \in PanelTexts
  /\ showAnalysisPanel = TRUE
  /\ appCalls = {}
  /\ appLoading = FALSE
  /\ appError = <<>>
  /\ entries = ServerEntries(2, 1)
  /\ lvLoading = FALSE
  /\ lvError = <<>>
  /\ searchTerm = <<>>
  /\ levelFilter = LevelAll
  /\ currentPage = 1
  /\ pagination = ServerPagination(2, 1)
  /\ selectedText = <<>>
  /\ viewerInst = 1
  /\ entryCalls = {}
  /\ fileId = Undefined
  /\ analysis = Null
  /\ loading = FALSE
  /\ error = <<>>
  /\ customQuestion = <<>>
  /\ panelInst = 1
  /\ analyzeCalls = {}
  /\ suggestions = <<>>
  /\ suggestCalls = {}
  /\ config = Null
  /\ configCalls = {}
  /\ InitAgent
  /\ InitHistory

NextSubmit ==
  \/ ClickAnalyze
  \/ \E q \in Questions : TypeQuestion(q)
  \/ handleCustomAnalysis
  \/ \E c \in analyzeCalls, r \in AnalyzeResponses : AnalyzeResponse(c, r)

SpecSubmit == InitSubmit /\ [][NextSubmit]_vars

(***************************************************************************)
(* The panel while the selected file changes: file 1 is open in the viewer *)
(* with a selection captured and the panel shown; the user had clicked     *)
(* View on file 2 before entering the tab and that call is under way.      *)
(***************************************************************************)
InitShownPanel(viewing) ==
  /\ root = "App"
  /\ serverFiles = Files
  /\ tab = "viewer"
  /\ files = Files
  /\ selectedFile = FileObj(1)
  /\ analysisText = Rep(FileChar(1), MinSelectionLen + 1)
  /\ showAnalysisPanel = TRUE
  /\ appCalls = IF viewing THEN {AppCall("view", 2, 0)} ELSE {}
  /\ appLoading = viewing
  /\ appError = <<>>
  /\ entries = ServerEntries(1, 1)
  /\ lvLoading = FALSE
  /\ lvError = <<>>
  /\ searchTerm = <<>>
  /\ levelFilter = LevelAll
  /\ currentPage = 1
  /\ pagination = ServerPagination(1, 1)
  /\ selectedText = Rep(FileChar(1), MinSelectionLen + 1)
  /\ viewerInst = 1
  /\ entryCalls = {}
  /\ fileId = Undefined
  /\ analysis = Null
  /\ loading = FALSE
  /\ error = <<>>
  /\ customQuestion = <<>>
  /\ panelInst = 1
  /\ analyzeCalls = {}
  /\ suggestions = <<>>
  /\ suggestCalls = {SuggestCall(1, 1)}
  /\ config = Null
  /\ configCalls = {ConfigCall(1, Num(1))}
  /\ InitAgent
  /\ InitHistory

InitSuggest == InitShownPanel(TRUE)

NextSuggest ==
  \/ \E c \in suggestCalls, r \in SuggestResults : SuggestionsResponse(c, r)
  \/ \E c \in appCalls, r \in NetResults : LoadFileResponse(c, r)
  \/ \E c \in entryCalls, r \in NetResults : EntriesResponse(c, r)
  \/ \E s \in SuggestionsShown : handleSuggestionClick(s)
  \/ ClickAnalyze
  \/ \E c \in analyzeCalls, r \in AnalyzeResponses : AnalyzeResponse(c, r)
  \/ closePanel
  \/ handleAnalyze

SpecSuggest == InitSuggest /\ [][NextSuggest]_vars

InitOffer == InitShownPanel(TRUE)

NextOffer ==
  \/ \E c \in suggestCalls, r \in SuggestResults : SuggestionsResponse(c, r)
  \/ \E c \in appCalls, r \in NetResults : LoadFileResponse(c, r)
  \/ \E c \in entryCalls, r \in NetResults : EntriesResponse(c, r)
  \/ \E s \in SuggestionsShown : handleSuggestionClick(s)
  \/ ClickAnalyze
  \/ \E c \in analyzeCalls, r \in AnalyzeResponses : AnalyzeResponse(c, r)

\* the suggestions offered and chosen while the selected file changes
SpecOffer == InitOffer /\ [][NextOffer]_vars

(***************************************************************************)
(* Rendering of a Success result.  The payload is a narrative string or a  *)
(* structured object; a property that an object does not carry reads as    *)
(* undefined, and so does a property of a string.                          *)
(***************************************************************************)
Array(s) == [t |-> "array", v |-> s]

\* x.length > 0
lengthPositive(x) == x.t \in {"array", "string"} /\ Len(x.v) > 0

UpperChar(c) ==
  CASE c = "h" -> "H" [] c = "i" -> "I" [] c = "g" -> "G" [] c = "l" -> "L"
    [] c = "o" -> "O" [] c = "w" -> "W" [] OTHER -> c

toUpperCase(s) == [i \in 1..Len(s) |-> UpperChar(s[i])]

Payload(su, se, is, re, pa, km) ==
  [t |-> "object", summary |-> su, severity |-> se, issues |-> is,
   recommendations |-> re, patterns |-> pa, key_metrics |-> km]

Issue(ty, se, de, re) ==
  [t |-> "object", type |-> ty, severity |-> se, description |-> de,
   recommendation |-> re]

Pattern(de, fr, si) ==
  [t |-> "object", description |-> de, frequency |-> fr, significance |-> si]

KeyMetrics(ec, wc, us, tr) ==
  [t |-> "object", error_count |-> ec, warning_count |-> wc, unique_sources |-> us,
   time_range |-> tr]

High == Str(<<"h", "i", "g", "h">>)

Low == Str(<<"l", "o", "w">>)

IssueHigh ==
  Issue(Str(<<"error">>), High, Str(<<"Pool exhausted">>), Str(<<"Raise the pool size">>))

IssueLow == Issue(Str(<<"warning">>), Low, Str(<<"Slow query">>), Undefined)

\* structured payloads: every optional field absent or present, every list
\* absent, empty or filled
Payloads ==
  { Payload(su, se, is, re, pa, km) :
      su \in {Undefined, Str(<<"Database connection pool exhausted">>)},
      se \in {Undefined, High},
      is \in {Undefined, Array(<<>>), Array(<<IssueHigh>>), Array(<<IssueHigh, IssueLow>>)},
      re \in {Undefined, Array(<<>>), Array(<<Str(<<"Restart the pool">>)>>)},
      pa \in {Undefined, Array(<<>>),
              Array(<<Pattern(Str(<<"Timeouts">>), Num(3), Str(<<"recurring">>))>>)},
      km \in {Undefined} \cup
             { KeyMetrics(ec, wc, us, tr) :
                 ec \in {Undefined, Num(0)}, wc \in {Undefined, Num(2)},
                 us \in {Undefined, Array(<<>>), Array(<<Str(<<"db">>)>>)},
                 tr \in {Undefined, Str(<<"1h">>)} } }

\* 2xx answers {success: true, analysis: payload}
PayloadResponses ==
  { Resolved(TRUE, TRUE, Envelope(Undefined, Undefined, Bool(TRUE), Undefined, p)) :
      p \in Payloads \cup {Narrative} }

\* an issue card: the type, the severity badge, the description and, when
\* issue.recommendation is truthy, the recommendation
issueCard(issue) ==
  [type |-> Get(issue, "type"), severity |-> Get(issue, "severity"),
   description |-> Get(issue, "description"),
   recommendation |-> IF Truthy(Get(issue, "recommendation"))
                      THEN Get(issue, "recommendation") ELSE Undefined]

\* result.issues && result.issues.length > 0 && result.issues.map(...)
issueCards(list) ==
  IF Truthy(list) /\ lengthPositive(list)
  THEN [i \in 1..Len(list.v) |-> issueCard(list.v[i])]
  ELSE <<>>

\* result.recommendations && ... && result.recommendations.map(...)
recommendationCards(list) ==
  IF Truthy(list) /\ lengthPositive(list)
  THEN [i \in 1..Len(list.v) |-> list.v[i]]
  ELSE <<>>

patternCard(pattern) ==
  [description |-> Get(pattern, "description"), frequency |-> Get(pattern, "frequency"),
   significance |-> Get(pattern, "significance")]

\* result.patterns && result.patterns.length > 0 && result.patterns.map(...)
patternCards(list) ==
  IF Truthy(list) /\ lengthPositive(list)
  THEN [i \in 1..Len(list.v) |-> patternCard(list.v[i])]
  ELSE <<>>

\* a Key Metrics block that shows the sources line for a filled list only
metricLinesFilledSources(km) ==
  (IF Get(km, "error_count") # Undefined THEN {"error_count"} ELSE {})
  \cup (IF Get(km, "warning_count") # Undefined THEN {"warning_count"} ELSE {})
  \cup (IF Truthy(Get(km, "unique_sources")) /\ lengthPositive(Get(km, "unique_sources"))
        THEN {"unique_sources"} ELSE {})
  \cup (IF Truthy(Get(km, "time_range")) THEN {"time_range"} ELSE {})

\* the lines of the Key Metrics block
metricLines(km) ==
  (IF Get(km, "error_count") # Undefined THEN {"error_count"} ELSE {})
  \cup (IF Get(km, "warning_count") # Undefined THEN {"warning_count"} ELSE {})
  \cup (IF Truthy(Get(km, "unique_sources")) THEN {"unique_sources"} ELSE {})
  \cup (IF Truthy(Get(km, "time_range")) THEN {"time_range"} ELSE {})

\* what throws in the success branch: a property read of undefined or null,
\* toUpperCase of a severity that is no string, map of a list that is no array
successBranchThrows(result) ==
  \/ result.t \in {"undefined", "null"}
  \/ Truthy(Get(result, "severity")) /\ Get(result, "severity").t # "string"
  \/ \E f \in {"issues", "recommendations", "patterns"} :
       /\ Truthy(Get(result, f))
       /\ lengthPositive(Get(result, f))
       /\ Get(result, f).t # "array"
  \/ /\ Truthy(Get(result, "issues"))
     /\ Get(result, "issues").t = "array"
     /\ \E i \in DOMAIN Get(result, "issues").v :
          Get(result, "issues").v[i].t \in {"undefined", "null"}
  \/ /\ Truthy(Get(result, "patterns"))
     /\ Get(result, "patterns").t = "array"
     /\ \E i \in DOMAIN Get(result, "patterns").v :
          Get(result, "patterns").v[i].t \in {"undefined", "null"}

\* the success branch of AIAnalysisPanel's renderAnalysisResult, for a
\* payload it does not throw on: the summary, the severity badge, the cards
\* of the three lists, the Key Metrics block and its lines
successBranch(result) ==
  [summary |-> IF result.t = "string" THEN result ELSE Get(result, "summary"),
   badge |-> IF Truthy(Get(result, "severity"))
             THEN Str(toUpperCase(Get(result, "severity").v)) ELSE Undefined,
   issues |-> issueCards(Get(result, "issues")),
   recommendations |-> recommendationCards(Get(result, "recommendations")),
   patterns |-> patternCards(Get(result, "patterns")),
   metrics |-> Truthy(Get(result, "key_metrics")),
   lines |-> IF Truthy(Get(result, "key_metrics"))
             THEN metricLines(Get(result, "key_metrics")) ELSE {}]

\* {success: true, analysis: payload, issues: is}: the answer of the agent
\* endpoint may carry a list of issues beside the payload
AgentEnvelope(an, is) ==
  [t |-> "object", demo_mode |-> Undefined, demo_analysis |-> Undefined,
   success |-> Bool(TRUE), error |-> Undefined, analysis |-> an, issues |-> is]

AgentPayloads ==
  { Narrative,
    Payload(Str(<<"Database connection pool exhausted">>), High, Undefined, Undefined,
            Undefined, Undefined),
    Payload(Str(<<"Database connection pool exhausted">>), High,
            Array(<<IssueHigh, IssueLow>>), Undefined, Undefined, Undefined) }

AgentPayloadResponses ==
  { Resolved(TRUE, TRUE, AgentEnvelope(an, is)) :
      an \in AgentPayloads, is \in {Undefined, Array(<<>>), Array(<<IssueLow>>)} }
  \cup { Resolved(TRUE, TRUE, Envelope(Undefined, Undefined, Bool(TRUE), Undefined, an)) :
           an \in AgentPayloads }

\* the success branch of AgentAnalysisPanel's renderAnalysisResult: the
\* summary is taken from the payload, the issue cards from analysis.issues
agentSuccessBranch(raw) ==
  LET result == raw.analysis
  IN  [summary |-> IF result.t = "string" THEN result ELSE Get(result, "summary"),
       issues |-> issueCards(Get(raw, "issues"))]

\* a panel with its request under way, to be answered with a Success
\* result: AIAnalysisPanel open on a captured selection, or AgentAnalysisPanel
\* with its symptoms typed
InitRender ==
  /\ \/ /\ root = "App"
        /\ serverFiles = Files
        /\ tab = "viewer"
        /\ files = Files
        /\ selectedFile = FileObj(2)
        /\ analysisText = Rep(FileChar(2), MinSelectionLen + 1)
        /\ showAnalysisPanel = TRUE
        /\ entries = ServerEntries(2, 1)
        /\ pagination = ServerPagination(2, 1)
        /\ selectedText = Rep(FileChar(2), MinSelectionLen + 1)
        /\ viewerInst = 1
        /\ fileId = Undefined
        /\ loading = TRUE
        /\ panelInst = 1
        /\ analyzeCalls =
             {[seq |-> 1, inst |-> 1, text |-> Rep(FileChar(2), MinSelectionLen + 1),
               file_id |-> Num(2), issue_description |-> <<>>]}
        /\ symptoms = <<>>
        /\ agentLoading = FALSE
        /\ agentCalls = {}
     \/ /\ root = "AgentHost"
        /\ serverFiles = Files
        /\ tab = "upload"
        /\ files = {}
        /\ selectedFile = Null
        /\ analysisText = <<>>
        /\ showAnalysisPanel = FALSE
        /\ entries = <<>>
        /\ pagination = Null
        /\ selectedText = <<>>
        /\ viewerInst = 0
        /\ fileId = Num(1)
        /\ loading = FALSE
        /\ panelInst = 0
        /\ analyzeCalls = {}
        /\ symptoms = <<"o", "o", "m">>
        /\ agentLoading = TRUE
        /\ agentCalls = {[seq |-> 1, file_id |-> Num(1), symptoms |-> <<"o", "o", "m">>]}
  /\ appCalls = {}
  /\ appLoading = FALSE
  /\ appError = <<>>
  /\ lvLoading = FALSE
  /\ lvError = <<>>
  /\ searchTerm = <<>>
  /\ levelFilter = LevelAll
  /\ currentPage = 1
  /\ entryCalls = {}
  /\ analysis = Null
  /\ error = <<>>
  /\ customQuestion = <<>>
  /\ suggestions = <<>>
  /\ suggestCalls = {}
  /\ config = Null
  /\ configCalls = {}
  /\ agentAnalysis = Null
  /\ agentError = <<>>
  /\ reqSeq = 1
  /\ delivered = <<>>
  /\ shown = 0
  /\ lastResp = NoResp
  /\ prevOutcome = "Idle"

NextRender ==
  \/ \E c \in analyzeCalls, r \in PayloadResponses : AnalyzeResponse(c, r)
  \/ \E c \in agentCalls, r \in AgentPayloadResponses : AgentResponse(c, r)

SpecRender == InitRender /\ [][NextRender]_vars

InitReplace == InitBrowsing(TRUE)

NextReplace ==
  \/ \E l \in Levels : handleFilterChange(l)
  \/ previousPage
  \/ nextPage
  \/ \E c \in entryCalls, r \in NetResults : EntriesResponse(c, r)
  \/ \E c \in appCalls, r \in NetResults : LoadFileResponse(c, r)

\* paging and filtering while the answer to View on the other file arrives
SpecReplace == InitReplace /\ [][NextReplace]_vars

(***************************************************************************)
(* Failing network operations: the viewer and the panel are shown on the   *)
(* large file, or the agent panel is rendered; every fetch is answered     *)
(* 2xx, non-2xx, with a body that is not JSON, or rejects.                 *)
(***************************************************************************)
AnalyzeFaults == {r \in AnalyzeResponses : r.net = "reject" \/ ~r.ok \/ ~r.parses}

EntryFaults == {"fail", "garbled", "reject"}

SuggestFaults == {"status", "garbled", "reject"}

ConfigFaults == {"status", "garbled", "reject"}

InitFault ==
  \/ InitShownPanel(FALSE)
  \/ InitAgentHost /\ InitPanel /\ InitAgent /\ InitHistory

NextFault ==
  \/ nextPage
  \/ previousPage
  \/ \E c \in entryCalls, r \in NetResults \cup EntryFaults : EntriesResponse(c, r)
  \/ ClickAnalyze
  \/ \E c \in analyzeCalls, r \in AnalyzeResponses : AnalyzeResponse(c, r)
  \/ \E c \in suggestCalls, r \in SuggestResults \cup SuggestFaults : SuggestionsResponse(c, r)
  \/ \E c \in configCalls, r \in ConfigResults : ConfigResponse(c, r)
  \/ \E s \in Symptoms : TypeSymptoms(s)
  \/ agentAnalyze
  \/ \E c \in agentCalls, r \in AnalyzeResponses : AgentResponse(c, r)

SpecFault == InitFault /\ [][NextFault]_vars

(***************************************************************************)
(* The configuration and the results: the panel is shown on a file and its *)
(* loadConfig call is under way; analyses are submitted and answered, the  *)
(* panel is closed and opened again, and every loadConfig call is answered *)
(* configured, not configured, or fails.                                   *)
(***************************************************************************)
InitConfig == InitShownPanel(FALSE)

NextConfig ==
  \/ \E c \in configCalls, r \in ConfigResults : ConfigResponse(c, r)
  \/ ClickAnalyze
  \/ \E c \in analyzeCalls, r \in AnalyzeResponses : AnalyzeResponse(c, r)
  \/ closePanel
  \/ handleAnalyze

SpecConfig == InitConfig /\ [][NextConfig]_vars

(***************************************************************************)
(* Submitting while loading: the panel is shown on a file with its         *)
(* suggestions being loaded, or the agent panel is rendered; every submit  *)
(* control is used, the answers arrive, and the panel is closed and opened *)
(* again.                                                                  *)
(***************************************************************************)
\* the answers told apart here: a rejected fetch and the 2xx Success answers
BusyResponses ==
  {r \in AnalyzeResponses :
     r.net = "reject" \/ (r.ok /\ r.parses /\ Truthy(r.json.success) /\ ~Truthy(r.json.demo_mode))}

InitBusy ==
  \/ InitShownPanel(FALSE)
  \/ InitAgentHost /\ InitPanel /\ InitAgent /\ InitHistory

NextBusy ==
  \/ \E c \in suggestCalls, r \in SuggestResults : SuggestionsResponse(c, r)
  \/ ClickAnalyze
  \/ \E s \in SuggestionsShown : handleSuggestionClick(s)
  \/ \E q \in Questions : TypeQuestion(q)
  \/ handleCustomAnalysis
  \/ \E c \in analyzeCalls, r \in BusyResponses : AnalyzeResponse(c, r)
  \/ closePanel
  \/ handleAnalyze
  \/ \E s \in Symptoms : TypeSymptoms(s)
  \/ agentAnalyze
  \/ \E c \in agentCalls, r \in BusyResponses : AgentResponse(c, r)

SpecBusy == InitBusy /\ [][NextBusy]_vars

(***************************************************************************)
(* Deleting the selected file: the viewer and the panel are shown on the   *)
(* large file, or the agent panel is rendered; the user goes to the upload *)
(* tab, deletes files, comes back and submits.                             *)
(***************************************************************************)
InitDelete ==
  \/ InitShownPanel(FALSE)
  \/ InitAgentHost /\ InitPanel /\ InitAgent /\ InitHistory

NextDelete ==
  \/ \E t \in {"upload", "viewer"} : selectTab(t)
  \/ \E f \in Files : deleteFile(f)
  \/ \E c \in appCalls, r \in NetResults : DeleteResponse(c, r)
  \/ \E c \in appCalls, r \in NetResults : FetchFilesResponse(c, r)
  \/ \E c \in entryCalls, r \in NetResults : EntriesResponse(c, r)
  \/ ClickAnalyze
  \/ \E c \in analyzeCalls, r \in BusyResponses : AnalyzeResponse(c, r)
  \/ \E s \in Symptoms : TypeSymptoms(s)
  \/ agentAnalyze
  \/ \E c \in agentCalls, r \in BusyResponses : AgentResponse(c, r)

SpecDelete == InitDelete /\ [][NextDelete]_vars

(***************************************************************************)
(* Typing without submitting: the large file is open in the viewer, the    *)
(* user types into the search box and never presses Search or Enter, and   *)
(* uses the page buttons and the level filter.                             *)
(***************************************************************************)
InitTyping == InitBrowsing(FALSE)

NextTyping ==
  \/ \E s \in SearchTerms : setSearchTerm(s)
  \/ previousPage
  \/ nextPage
  \/ \E l \in Levels : handleFilterChange(l)
  \/ \E c \in entryCalls, r \in NetResults : EntriesResponse(c, r)

SpecTyping == InitTyping /\ [][NextTyping]_vars

(***************************************************************************)
(* Overlapping suggestions requests: the panel is shown on the large file  *)
(* with its suggestions request under way while the answer to View on the  *)
(* other file arrives; every suggestions request is answered 2xx with the  *)
(* list of its file.                                                       *)
(***************************************************************************)
InitOverlap == InitShownPanel(TRUE)

NextOverlap ==
  \/ \E c \in suggestCalls : SuggestionsResponse(c, "ok")
  \/ \E c \in appCalls, r \in NetResults : LoadFileResponse(c, r)
  \/ \E c \in entryCalls, r \in NetResults : EntriesResponse(c, r)
  \/ \E s \in SuggestionsShown : handleSuggestionClick(s)
  \/ ClickAnalyze
  \/ \E c \in analyzeCalls, r \in BusyResponses : AnalyzeResponse(c, r)

SpecOverlap == InitOverlap /\ [][NextOverlap]_vars

(***************************************************************************)
(* The two analysis panels side by side: AIAnalysisPanel and               *)
(* AgentAnalysisPanel are rendered next to each other, receive the same    *)
(* text (selectedText / symptoms) and the same fileId, their submit        *)
(* buttons are clicked together and the calls of one submission get the    *)
(* same answer.                                                            *)
(***************************************************************************)
PairFiles == {Undefined, Num(1)}

\* the texts both panels can hold: nothing, or a selection the viewer
\* captured (trimmed, longer than 10 characters) that is typed as the symptoms
PairTexts == {<<>>} \cup { Rep(FileChar(f), MinSelectionLen + 1) : f \in Files }

InitSideBySide ==
  /\ root = "SideBySide"
  /\ serverFiles = Files
  /\ tab = "viewer"
  /\ files = Files
  /\ \E f \in PairFiles :
       /\ fileId = f
       /\ selectedFile = IF f = Undefined THEN Null ELSE FileObj(f.v)
  /\ \E s \in PairTexts : analysisText = s /\ symptoms = s
  /\ showAnalysisPanel = TRUE
  /\ appCalls = {}
  /\ appLoading = FALSE
  /\ appError = <<>>
  /\ InitViewerEmpty
  /\ viewerInst = 0
  /\ analysis = Null
  /\ loading = FALSE
  /\ error = <<>>
  /\ customQuestion = <<>>
  /\ panelInst = 1
  /\ analyzeCalls = {}
  /\ suggestions = <<>>
  /\ suggestCalls = {}
  /\ config = Null
  /\ configCalls = {}
  /\ agentAnalysis = Null
  /\ agentLoading = FALSE
  /\ agentError = <<>>
  /\ agentCalls = {}
  /\ InitHistory

\* the same text reaches both panels: the selectedText prop of one, the
\* symptoms Textarea of the other
TypeBoth(s) ==
  /\ root = "SideBySide"
  /\ symptoms # s
  /\ analysisText' = s
  /\ symptoms' = s
  /\ UNCHANGED <<root, suggestVars, serverFiles, tab, files, selectedFile, showAnalysisPanel,
                 appLoading, appError, appCalls, viewerVars, panelVars, historyVars,
                 fileId, agentAnalysis, agentLoading, agentError, agentCalls>>

\* the Analyze button of AIAnalysisPanel, rendered with the controls and
\* disabled={loading}, and the start button of AgentAnalysisPanel,
\* disabled={loading || !symptoms.trim()}, are clicked together
SubmitBoth ==
  /\ root = "SideBySide"
  /\ reqSeq < MaxRequests
  /\ LET panelClick == analysisText # <<>> /\ ~loading
         agentClick == ~(agentLoading \/ Trim(symptoms) = <<>>)
         \* if (!text) return
         panelGo == panelClick /\ analysisText # <<>>
         \* if (!fileId || !symptoms.trim()) return
         agentGo == agentClick /\ ~(~Truthy(fileId) \/ Trim(symptoms) = <<>>)
         pst == analyzeTextStart([analysis |-> analysis, loading |-> loading,
                                  error |-> error])
         ast == agentAnalyzeStart([analysis |-> agentAnalysis, loading |-> agentLoading,
                                   error |-> agentError])
     IN  /\ panelClick \/ agentClick
         /\ IF panelGo
            THEN /\ analysis' = pst.analysis
                 /\ loading' = pst.loading
                 /\ error' = pst.error
                 /\ analyzeCalls' = analyzeCalls \cup
                      {[seq |-> reqSeq + 1, inst |-> panelInst, text |-> analysisText,
                        file_id |-> PanelFileId, issue_description |-> <<>>]}
            ELSE UNCHANGED <<analysis, loading, error, analyzeCalls>>
         /\ IF agentGo
            THEN /\ agentAnalysis' = ast.analysis
                 /\ agentLoading' = ast.loading
                 /\ agentError' = ast.error
                 /\ agentCalls' = agentCalls \cup
                      {[seq |-> reqSeq + 1, file_id |-> fileId, symptoms |-> Trim(symptoms)]}
            ELSE UNCHANGED <<agentAnalysis, agentLoading, agentError, agentCalls>>
  /\ reqSeq' = reqSeq + 1
  /\ prevOutcome' = PanelOutcome
  /\ shown' = 0
  /\ lastResp' = NoResp
  /\ UNCHANGED <<root, suggestVars, serverFiles, appVars, viewerVars, customQuestion, panelInst,
                 fileId, symptoms, delivered>>

\* the calls of submission s get the answer r: the rest of analyzeText and
\* of agentAnalyze runs
AnswerBoth(s, r) ==
  /\ root = "SideBySide"
  /\ \E c \in analyzeCalls \cup agentCalls : c.seq = s
  /\ analyzeCalls' = {c \in analyzeCalls : c.seq # s}
  /\ agentCalls' = {c \in agentCalls : c.seq # s}
  /\ IF \E c \in analyzeCalls : c.seq = s
     THEN LET st == analyzeTextSettle([analysis |-> analysis, loading |-> loading,
                                       error |-> error], r)
          IN  /\ analysis' = st.analysis
              /\ loading' = st.loading
              /\ error' = st.error
     ELSE UNCHANGED <<analysis, loading, error>>
  /\ IF \E c \in agentCalls : c.seq = s
     THEN LET st == agentAnalyzeSettle([analysis |-> agentAnalysis, loading |-> agentLoading,
                                        error |-> agentError], r)
          IN  /\ agentAnalysis' = st.analysis
              /\ agentLoading' = st.loading
              /\ agentError' = st.error
     ELSE UNCHANGED <<agentAnalysis, agentLoading, agentError>>
  /\ delivered' = Append(delivered, [seq |-> s, inst |-> panelInst])
  /\ shown' = s
  /\ lastResp' = r
  /\ UNCHANGED <<root, suggestVars, serverFiles, appVars, viewerVars, customQuestion, panelInst,
                 fileId, symptoms, reqSeq, prevOutcome>>

NextSideBySide ==
  \/ \E s \in PairTexts : TypeBoth(s)
  \/ SubmitBoth
  \/ \E s \in 1..MaxRequests, r \in AnalyzeResponses : AnswerBoth(s, r)

SpecSideBySide == InitSideBySide /\ [][NextSideBySide]_vars

(***************************************************************************)
(* Properties of the analysis controllers                                  *)
(***************************************************************************)
Terminal == {"Demo", "Success", "Failure"}

\* the panel whose controller the history variables follow
ShownAnalysis == IF root = "App" THEN analysis ELSE agentAnalysis

ShownLoading == IF root = "App" THEN loading ELSE agentLoading

ShownError == IF root = "App" THEN error ELSE agentError

ShownOutcome == IF root = "App" THEN PanelOutcome ELSE AgentOutcome

\* the calls of the mounted panel that await their answer
OwnCalls ==
  IF root = "App" THEN {c \in analyzeCalls : PanelApplies(c)} ELSE agentCalls

\* C1: of two accepted submissions A then B whose answers arrive B first, A last,
\* the panel never shows the state made by A's answer, and it shows the state
\* made by B's answer as long as B is the latest submission of the shown panel.
Supersession ==
  \A i, j \in 1..Len(delivered) :
    (i < j /\ delivered[j].seq < delivered[i].seq) =>
      /\ shown # delivered[j].seq
      /\ (delivered[i].seq = reqSeq /\ PanelMounted /\ delivered[i].inst = panelInst)
           => shown = delivered[i].seq

\* A's answer has arrived after B's, and the panel shows B's result
SupersessionWitness ==
  \E i, j \in 1..Len(delivered) :
    /\ i < j
    /\ delivered[j].seq < delivered[i].seq
    /\ shown = delivered[i].seq
    /\ PanelOutcome \in Terminal

ShownCount ==
  Cardinality({k \in {"loading", "error", "result"} :
                 \/ k = "loading" /\ ShownLoading
                 \/ k = "error" /\ ShownError # <<>>
                 \/ k = "result" /\ ShownAnalysis # Null})

\* a panel is rendered: the agent panel, or the AI panel with its controls
PanelRendered == root = "AgentHost" \/ PanelControls

\* C3 as stated: a rendered panel shows exactly one of spinner, banner, result.
ExactlyOneShown == PanelRendered => ShownCount = 1

\* C3 amended: never two of spinner, banner and result at once; exactly one once
\* a submission was accepted on the rendered panel, none before that (Idle).
OneShownOnceSubmitted ==
  PanelRendered =>
    /\ ShownCount <= 1
    /\ (ShownLoading \/ shown # 0) => ShownCount = 1
    /\ ~(ShownLoading \/ shown # 0) => ShownCount = 0

\* a failed request leaves the banner alone, a second one the result alone
OneShownWitness ==
  /\ PanelControls
  /\ prevOutcome = "Failure"
  /\ shown # 0
  /\ analysis # Null
  /\ error = <<>>

\* C4: while a panel is Loading it holds no result and no error, whatever it
\* showed when the submit was accepted.
LoadingShowsNothingElse ==
  /\ loading => analysis = Null /\ error = <<>>
  /\ agentLoading => agentAnalysis = Null /\ agentError = <<>>

\* a submit accepted on a panel that showed a result
LoadingAfterResultWitness == PanelControls /\ loading /\ prevOutcome = "Success"

\* C5: once a request has completed, the panel is in exactly one of Demo,
\* Failure and Success: the banner and a result never show together, and one
\* of them shows.
OneOutcomePerCompletedRequest ==
  (PanelRendered /\ shown # 0) => ShownOutcome \in Terminal

\* a request completed with a demo answer after one that had failed
OneOutcomeWitness ==
  PanelControls /\ shown # 0 /\ prevOutcome = "Failure" /\ PanelOutcome = "Demo"

GenericMessages ==
  {"Failed to analyze text", "Failed to analyze text: ", "Failed to analyze logs",
   "Failed to analyze logs: "}

\* a network error, or a non-2xx answer without a body
TransportFailure(r) == r.net = "reject" \/ (r.net = "resolve" /\ ~r.ok /\ ~r.parses)

\* C7: after a transport failure the panel is not loading, holds no result,
\* shows a generic failure message, and no call is under way: every call made
\* belongs to an accepted submission.
TransportFailureEndsInFailure ==
  /\ Cardinality(analyzeCalls) + Cardinality(agentCalls) + Len(delivered) = reqSeq
  /\ (PanelRendered /\ shown # 0 /\ TransportFailure(lastResp)) =>
       /\ ~ShownLoading
       /\ ShownAnalysis = Null
       /\ ShownError # <<>>
       /\ Head(ShownError) \in GenericMessages
       /\ ShownOutcome = "Failure"
       /\ OwnCalls = {}

\* the AI panel after HTTP 500 without a body
TransportFailureWitness ==
  /\ PanelControls
  /\ shown # 0
  /\ lastResp = Resolved(FALSE, FALSE, Undefined)
  /\ error = <<"Failed to analyze text">>

\* C8: after a non-2xx answer the message is the body's error when the body
\* carries one, and a generic message otherwise, in both panels.
ServerErrorSurfaced ==
  (PanelRendered /\ shown # 0 /\ lastResp.net = "resolve" /\ ~lastResp.ok) =>
    IF lastResp.parses /\ Truthy(lastResp.json.error)
    THEN ShownError = lastResp.json.error.v
    ELSE ShownError # <<>> /\ Head(ShownError) \in GenericMessages

\* C2: a panel that is Loading eventually stops loading, and it is then in
\* Demo, Success or Failure (or was closed), whatever the answer was.
LoadingEnds ==
  ShownLoading ~> (~ShownLoading /\ (ShownOutcome \in Terminal \/ ~PanelRendered))

\* the agent panel in Failure after a non-2xx answer whose body does not parse
LoadingEndsWitness ==
  /\ root = "AgentHost"
  /\ shown # 0
  /\ lastResp = Resolved(FALSE, FALSE, Undefined)
  /\ ~agentLoading
  /\ AgentOutcome = "Failure"

\* C6: the stored envelope is classified in a fixed order: Demo with
\* demo_analysis.summary when demo_mode is set, whatever success says; else
\* Failure with the envelope's error when success is falsy; else Success with
\* the envelope's analysis.
ClassificationOrder ==
  LET a == ShownAnalysis
      n == IF root = "App" THEN normalize(a) ELSE agentNormalize(a)
  IN  (a # Null /\ ~ShownLoading /\ ShownError = <<>>) =>
        /\ ShownOutcome = n.variant
        /\ Truthy(a.demo_mode) =>
             n = [variant |-> "Demo", content |-> a.demo_analysis.summary]
        /\ (~Truthy(a.demo_mode) /\ ~Truthy(a.success)) =>
             n = [variant |-> "Failure", content |-> a.error]
        /\ (~Truthy(a.demo_mode) /\ Truthy(a.success)) =>
             n = [variant |-> "Success", content |-> a.analysis]

\* a demo envelope that also says success: false is shown as Demo
ClassificationWitness ==
  /\ root = "App"
  /\ analysis # Null
  /\ Truthy(analysis.demo_mode)
  /\ analysis.success = Bool(FALSE)
  /\ PanelOutcome = "Demo"

(***************************************************************************)
(* Properties of the captured selection                                    *)
(***************************************************************************)
\* C9: a pointer release in the entry list with selection text t replaces the
\* captured selection by trim(t) exactly when trim(t) is longer than
\* MinSelectionLen characters, whatever was captured before; otherwise the
\* captured selection stays as it was.  The text held for the panel is not
\* touched either way.
SelectionCapture ==
  [][\A t \in SelectableTexts(entries) :
       handleTextSelection(t) =>
         /\ selectedText' =
              IF Len(Trim(t)) > MinSelectionLen THEN Trim(t) ELSE selectedText
         /\ analysisText' = analysisText]_vars

\* a first capture was handed to the panel and a later, shorter qualifying
\* release has replaced it in the viewer
SelectionCaptureWitness ==
  /\ EntryListShown
  /\ analysisText = Rep(FileChar(selectedFile.id), MinSelectionLen + 8)
  /\ selectedText = Rep(FileChar(selectedFile.id), MinSelectionLen + 1)

\* s is text of file f's entries
TextOfFile(f, s) == \A i \in 1..Len(s) : s[i] = FileChar(f)

\* C10: the captured selection follows the selected file: LogViewer's
\* selectedText and App's analysisText are empty or text of the file that is
\* selected now, so after a switch to another file or a deletion neither
\* carries text of the previous file.
SelectionClearedOnFileChange ==
  /\ selectedText # <<>> =>
       (selectedFile # Null /\ TextOfFile(selectedFile.id, selectedText))
  /\ analysisText # <<>> =>
       (selectedFile # Null /\ TextOfFile(selectedFile.id, analysisText))

(***************************************************************************)
(* Properties of the entry list                                            *)
(***************************************************************************)
SearchTIME == <<"T", "I", "M", "E">>

LevelError == <<"e", "r", "r", "o", "r">>

\* the entries es are entries of page P in P's order
Narrows(es, P) ==
  LET page == {P[k] : k \in DOMAIN P}
  IN  /\ \A i \in DOMAIN es : es[i] \in page
      /\ \A i \in 1..(Len(es) - 1) : es[i].line_number < es[i + 1].line_number

\* the pages a request asks for
RequestedPages == 1..Max(ServerPages(1), ServerPages(2))

\* the entries of page p of file f, as a set
PageSet ==
  [f \in Files, p \in RequestedPages |->
     {ServerEntries(f, p)[k] : k \in DOMAIN ServerEntries(f, p)}]

\* es are entries of the set page, in the server's order
NarrowsPage(es, page) ==
  /\ \A i \in DOMAIN es : es[i] \in page
  /\ \A i \in 1..(Len(es) - 1) : es[i].line_number < es[i + 1].line_number

\* the viewer shows an answered page: nothing under way, no error
PageSettled == ViewerControls /\ ~lvLoading /\ lvError = <<>> /\ entryCalls = {}

\* C11 as stated: applying a search term or a level filter issues no entries
\* request and only narrows the page that was fetched already.
FilteringNeverFetches ==
  [][(handleSearch \/ \E l \in Levels : handleFilterChange(l)) =>
       /\ entryCalls' = entryCalls
       /\ Narrows(entries', entries)]_vars

\* C11 amended: the filters are applied by the client to the page an entries
\* request returned: the answer issues no further request, the displayed
\* entries are entries of that page in its order, and the stored pagination
\* is the server's unfiltered pagination object; typing a search term,
\* submitting it and choosing a level leave the stored pagination as it is.
FilterIsClientSide ==
  [][/\ \A c \in entryCalls :
          EntriesResponse(c, "ok") =>
            /\ InFlight(entryCalls') = InFlight(entryCalls) - 1
            /\ NarrowsPage(entries', PageSet[c.file, c.page])
            /\ pagination' = ServerPagination(c.file, c.page)
     /\ (\/ handleSearch
         \/ \E l \in Levels : handleFilterChange(l)
         \/ \E s \in SearchTerms : setSearchTerm(s)) =>
          /\ pagination' = pagination
          /\ entries' = entries]_vars

\* a submitted search term has narrowed page 1 of the large file, and the
\* pagination still counts every entry of the file
FilterIsClientSideWitness ==
  /\ PageSettled
  /\ searchTerm = SearchTIME
  /\ levelFilter = LevelAll
  /\ entries # <<>>
  /\ Len(entries) < PerPage
  /\ pagination = ServerPagination(1, 1)

\* an entry passes search term s and level l
Passes(e, s, l) ==
  /\ \/ s = <<>>
     \/ includes(toLowerCase(e.raw_line), toLowerCase(s))
     \/ e.message.t = "string" /\ includes(toLowerCase(e.message.v), toLowerCase(s))
  /\ \/ l = LevelAll
     \/ e.level.t = "string" /\ toLowerCase(e.level.v) = toLowerCase(l)

\* the entries of page p of file f that pass search term s and level l
PassingEntries ==
  [f \in Files, p \in RequestedPages, s \in SearchTerms, l \in Levels |->
     {e \in PageSet[f, p] : Passes(e, s, l)}]

\* C12: after a 2xx answer for page P requested with search term s and level l
\* the displayed entries are exactly the entries of P that pass s and l, in
\* P's order, and the pagination is the server's.
PostFilterResult ==
  [][\A c \in entryCalls :
       EntriesResponse(c, "ok") =>
         LET kept == PassingEntries[c.file, c.page, c.search, c.level]
         IN  /\ Len(entries') = Cardinality(kept)
             /\ NarrowsPage(entries', kept)
             /\ pagination'.total = FileTotal(c.file)]_vars

\* the page of 50 entries filtered by level error shows its 12 ERROR entries
PostFilterResultWitness ==
  /\ PageSettled
  /\ levelFilter = LevelError
  /\ Len(ServerEntries(selectedFile.id, currentPage)) = PerPage
  /\ Len(entries) = 12
  /\ \A i \in DOMAIN entries : entries[i].level = Str(<<"E", "R", "R", "O", "R">>)
  /\ pagination.total = LargeTotal

\* C13: the Search button and a change of the level filter set the current
\* page to 1 and issue an entries request for page 1 of the selected file
\* with the search term and the level now in force, whatever the page was.
FilterChangeRefetchesPageOne ==
  [][/\ handleSearch =>
          /\ currentPage' = 1
          /\ InFlight(entryCalls') > InFlight(entryCalls)
          /\ \E c \in entryCalls' :
               /\ SameCall(c, EntryCall(selectedFile.id, 1, searchTerm, levelFilter))
               /\ \A d \in entryCalls : SameCall(d, c) => d.n < c.n
     /\ \A l \in Levels :
          handleFilterChange(l) =>
            /\ currentPage' = 1
            /\ levelFilter' = l
            /\ \E c \in entryCalls' :
                 /\ SameCall(c, EntryCall(selectedFile.id, 1, searchTerm, l))
                 /\ \A d \in entryCalls : SameCall(d, c) => d.n < c.n]_vars

\* page 2 is still the stored pagination, the current page is 1 again and the
\* request for page 1 with the submitted term is under way
FilterChangeWitness ==
  /\ ViewerControls
  /\ pagination # Null
  /\ pagination.page = 2
  /\ currentPage = 1
  /\ \E c \in entryCalls : c.page = 1 /\ c.search = SearchTIME /\ c.level = LevelError

\* C14: while the viewer holds an error of an entries request it holds no
\* entries: a failed request leaves the entry set empty.
FailureClearsEntries == (ViewerControls /\ lvError # <<>>) => entries = <<>>

\* C15: the current page of the viewer is within [1, max(pages, 1)] of the
\* selected file, and a stored pagination has pages = ceil(total / per_page)
\* and its page within [1, max(pages, 1)].
PageWithinBounds ==
  ViewerControls =>
    /\ currentPage \in 1..Max(ServerPages(selectedFile.id), 1)
    /\ pagination # Null =>
         /\ pagination.pages = Ceil(pagination.total, pagination.per_page)
         /\ pagination.page \in 1..Max(pagination.pages, 1)

(***************************************************************************)
(* Properties of submission                                                *)
(***************************************************************************)
\* C16: a submit with empty or white-space-only text, and an agentAnalyze
\* with empty or white-space-only symptoms or without a fileId, is a no-op:
\* no call is issued, and loading, error and analysis are left as they were.
ValidationSkip ==
  [][ /\ (PanelMounted /\ Trim(analysisText) = <<>>) =>
           /\ analyzeCalls' \subseteq analyzeCalls
           /\ analyzeCalls' = analyzeCalls => UNCHANGED <<analysis, loading, error>>
      /\ (root = "AgentHost" /\ (~Truthy(fileId) \/ Trim(symptoms) = <<>>)) =>
           /\ agentCalls' \subseteq agentCalls
           /\ agentCalls' = agentCalls =>
                UNCHANGED <<agentAnalysis, agentLoading, agentError>>
    ]_vars

\* the calls a step issues
IssuedCalls == analyzeCalls' \ analyzeCalls

\* C17: a step that issues a call with an issue_description does so from a
\* question whose trim is non-empty, sends that trim with the selected text,
\* and clears the question field; while the trimmed question is empty no such
\* call is issued, and a step that issues a call without an issue_description
\* leaves the question field as it was.
AskCustom ==
  [][ \A c \in IssuedCalls :
        IF c.issue_description # <<>>
        THEN /\ Trim(customQuestion) # <<>>
             /\ analysisText # <<>>
             /\ c.issue_description = Trim(customQuestion)
             /\ c.text = analysisText
             /\ customQuestion' = <<>>
             /\ loading'
        ELSE UNCHANGED customQuestion
    ]_vars

\* the question " why " was asked: its call carries "why" and the field is empty
AskCustomWitness ==
  /\ PanelControls
  /\ customQuestion = <<>>
  /\ loading
  /\ \E c \in analyzeCalls :
       /\ c.issue_description = <<"w", "h", "y">>
       /\ c.text = analysisText
       /\ c.seq = reqSeq
       /\ prevOutcome = "Demo"

(***************************************************************************)
(* Properties of the controller's lifecycle                                *)
(***************************************************************************)
\* the transitions of a controller: Idle to Loading, Loading to a terminal
\* state, a terminal state to Loading
Transition(o, p) ==
  \/ o = p
  \/ o = "Idle" /\ p = "Loading"
  \/ o = "Loading" /\ p \in Terminal
  \/ o \in Terminal /\ p = "Loading"

\* C18: while a panel stays rendered, every step takes its controller along
\* Idle -> Loading, Loading -> {Demo, Success, Failure} or
\* {Demo, Success, Failure} -> Loading: it does not come back to Idle and it
\* enters no terminal state except from Loading.  A panel that is closed is
\* gone; the panel opened next starts Idle.
LifecycleTransitions ==
  [][ /\ (PanelMounted /\ PanelMounted') => Transition(PanelOutcome, PanelOutcome')
      /\ ~PanelMounted' => PanelOutcome' = "Idle"
      /\ root = "AgentHost" => Transition(AgentOutcome, AgentOutcome')
    ]_vars

\* a panel that went Idle, Loading, Failure, Loading and is in Demo, closed
\* and opened once before
LifecycleWitness ==
  /\ PanelMounted
  /\ panelInst = 2
  /\ reqSeq = MaxRequests
  /\ prevOutcome = "Failure"
  /\ PanelOutcome = "Demo"
  /\ shown = reqSeq

(***************************************************************************)
(* Properties of the demo answer                                           *)
(***************************************************************************)
\* the demo branch of AIAnalysisPanel's renderAnalysisResult reads
\* demo_analysis.summary and calls demo_analysis.recommendations.map: it
\* throws a TypeError when either receiver is not there
demoBranchThrows(a) ==
  IF a.demo_analysis.t # "object" THEN TRUE
  ELSE a.demo_analysis.recommendations.t # "array"

\* the demo branch of AgentAnalysisPanel's renderAnalysisResult reads
\* demo_analysis.summary only
agentDemoBranchThrows(a) == a.demo_analysis.t # "object"

\* {demo_mode: true, demo_analysis: {summary}}
DemoSummaryOnly ==
  Envelope(Bool(TRUE), DemoAnalysis(Undefined), Undefined, Undefined, Undefined)

\* C20: a panel that holds the answer {demo_mode: true, demo_analysis:
\* {summary}} is in Demo, shows the summary and renders without a fault.
DemoWithoutRecommendations ==
  /\ (PanelControls /\ ~loading /\ analysis = DemoSummaryOnly) =>
       /\ PanelOutcome = "Demo"
       /\ normalize(analysis).content = DemoSummaryOnly.demo_analysis.summary
       /\ ~demoBranchThrows(analysis)
  /\ (root = "AgentHost" /\ ~agentLoading /\ agentAnalysis = DemoSummaryOnly) =>
       /\ AgentOutcome = "Demo"
       /\ agentNormalize(agentAnalysis).content = DemoSummaryOnly.demo_analysis.summary
       /\ ~agentDemoBranchThrows(agentAnalysis)

(***************************************************************************)
(* Properties of the suggestions                                           *)
(***************************************************************************)
\* the panel's suggestions requests that await their answer
OwnSuggestCalls == {c \in suggestCalls : c.inst = panelInst}

\* C19: once the suggestions requests of the rendered panel are answered, its
\* list holds the suggestions of the selected file or is empty (a failed
\* request for the new file leaves no suggestions of the file selected
\* before), and the Analyze button works whatever the list holds.
SuggestionsFollowFile ==
  (PanelControls /\ selectedFile # Null) =>
    /\ OwnSuggestCalls = {} => suggestions \in {<<>>, SuggestionsOf(selectedFile.id)}
    /\ (~loading /\ reqSeq < MaxRequests) => ENABLED ClickAnalyze

(***************************************************************************)
(* Properties of the rendered Success result                               *)
(***************************************************************************)
\* a list field that is there and holds at least one element
Filled(x) == x.t = "array" /\ x.v # <<>>

\* the Success payload the panel shows
ShownPayload == analysis.analysis

SuccessShown ==
  PanelControls /\ ~loading /\ error = <<>> /\ analysis # Null /\ PanelOutcome = "Success"

\* the blocks of the optional fields other than the sources line
BlocksFollowFields(result, view) ==
  /\ ~successBranchThrows(result)
  /\ (view.badge # Undefined) <=> (Get(result, "severity") # Undefined)
  /\ (view.issues # <<>>) <=> Filled(Get(result, "issues"))
  /\ (view.recommendations # <<>>) <=> Filled(Get(result, "recommendations"))
  /\ (view.patterns # <<>>) <=> Filled(Get(result, "patterns"))
  /\ view.metrics <=> (Get(result, "key_metrics") # Undefined)
  /\ \A f \in {"error_count", "warning_count", "time_range"} :
       (f \in view.lines) <=> (Get(Get(result, "key_metrics"), f) # Undefined)
  /\ \A i \in DOMAIN view.issues :
       (view.issues[i].recommendation # Undefined)
         <=> (Get(Get(result, "issues").v[i], "recommendation") # Undefined)
  /\ result.t = "string" =>
       /\ view.summary = result
       /\ view.badge = Undefined
       /\ view.issues = <<>> /\ view.recommendations = <<>> /\ view.patterns = <<>>
       /\ ~view.metrics

\* C21 as stated: for every subset of present fields the block of a field is
\* rendered iff the field is present, and non-empty when it is a list
\* (issues, recommendations, patterns, key_metrics.unique_sources); rendering
\* never faults; a narrative string shows the summary alone.
BlockIffPresentAndFilled ==
  SuccessShown =>
    LET result == ShownPayload
        view == successBranch(result)
    IN  /\ BlocksFollowFields(result, view)
        /\ ("unique_sources" \in view.lines)
             <=> Filled(Get(Get(result, "key_metrics"), "unique_sources"))

\* C21, amended: as above, except that the sources line of Key Metrics is
\* rendered iff unique_sources is present, an empty list included.
BlockIffPresent ==
  SuccessShown =>
    LET result == ShownPayload
        view == successBranch(result)
    IN  /\ BlocksFollowFields(result, view)
        /\ ("unique_sources" \in view.lines)
             <=> (Get(Get(result, "key_metrics"), "unique_sources") # Undefined)

\* a payload with severity and key_metrics {unique_sources: []} alone: the
\* badge and the sources line are shown, no list block is
BlockIffPresentWitness ==
  /\ SuccessShown
  /\ ShownPayload.t = "object"
  /\ ShownPayload.severity = High
  /\ ShownPayload.issues = Undefined
  /\ ShownPayload.recommendations = Array(<<>>)
  /\ ShownPayload.key_metrics # Undefined
  /\ ShownPayload.key_metrics.unique_sources = Array(<<>>)
  /\ successBranch(ShownPayload).badge = Str(<<"H", "I", "G", "H">>)
  /\ successBranch(ShownPayload).lines = {"unique_sources"}
  /\ successBranch(ShownPayload).recommendations = <<>>

(***************************************************************************)
(* Properties of normalization                                             *)
(***************************************************************************)
\* the classification of the raw answer held by the rendered panel
Classified(raw) == IF root = "App" THEN normalize(raw) ELSE agentNormalize(raw)

ResultShown == ShownAnalysis # Null /\ ~ShownLoading

\* C22: the outcome a panel shows for a raw answer is the classification of
\* that answer alone, whatever the controller went through before, and a
\* render that follows with the same raw answer shows the same outcome.
NormalizeIsDeterministic ==
  [][ /\ ResultShown' =>
           /\ ShownAnalysis' = lastResp'.json
           /\ ShownOutcome' = Classified(lastResp'.json).variant
      /\ (ResultShown /\ ResultShown' /\ ShownAnalysis' = ShownAnalysis) =>
           ShownOutcome' = ShownOutcome
    ]_vars

\* a Success answer shown after a Demo answer, and the panel rendered again
\* since (a question was typed)
NormalizeWitness ==
  /\ root = "App"
  /\ PanelControls
  /\ ResultShown
  /\ reqSeq >= 2
  /\ prevOutcome = "Demo"
  /\ PanelOutcome = "Success"
  /\ analysis.analysis = Narrative
  /\ customQuestion # <<>>

AgentSuccessShown ==
  /\ root = "AgentHost"
  /\ ~agentLoading /\ agentError = <<>> /\ agentAnalysis # Null
  /\ AgentOutcome = "Success"

\* the issues of a payload, none for a narrative string
PayloadIssues(result) ==
  IF Get(result, "issues") = Undefined THEN <<>> ELSE Get(result, "issues").v

\* the summary and the issue cards follow the payload: one card per issue,
\* in payload order, each with its issue's severity; the string itself and no
\* card for a narrative string
CardsFollowPayload(result, view) ==
  /\ Len(view.issues) = Len(PayloadIssues(result))
  /\ \A i \in DOMAIN view.issues :
       /\ view.issues[i].severity = PayloadIssues(result)[i].severity
       /\ view.issues[i].description = PayloadIssues(result)[i].description
  /\ result.t = "string" => view.summary = result /\ view.issues = <<>>
  /\ result.t = "object" => view.summary = Get(result, "summary")

\* C23: the payload of a Success answer reaches the renderer unchanged, and
\* either panel shows exactly one issue card per issue of a structured
\* payload, in payload order and tagged with the issue's severity, and the
\* string alone for a narrative payload.
IssueCardsFollowPayload ==
  /\ SuccessShown =>
       /\ ShownPayload = lastResp.json.analysis
       /\ CardsFollowPayload(ShownPayload, successBranch(ShownPayload))
  /\ AgentSuccessShown =>
       /\ agentAnalysis.analysis = lastResp.json.analysis
       /\ CardsFollowPayload(agentAnalysis.analysis, agentSuccessBranch(agentAnalysis))

(***************************************************************************)
(* Properties of the outbound calls                                        *)
(***************************************************************************)
\* the analysis calls a step issues
NewAnalyzeCalls == Cardinality(analyzeCalls' \ analyzeCalls)

NewAgentCalls == Cardinality(agentCalls' \ agentCalls)

\* the analysis calls issued so far: the answered ones and those under way
CallsIssued == Len(delivered) + Cardinality(analyzeCalls) + Cardinality(agentCalls)

\* C24: a step issues a call only as an accepted submit (the panel goes
\* from not loading to loading) and then issues exactly one; a step in which
\* an answer arrives, whatever the answer, issues none; the calls issued are
\* as many as the accepted submissions.
OneCallPerSubmit ==
  [][ /\ NewAnalyzeCalls + NewAgentCalls <= 1
      /\ NewAnalyzeCalls + NewAgentCalls = 1 =>
           /\ delivered' = delivered
           /\ ~ShownLoading /\ ShownLoading'
      /\ reqSeq' # reqSeq <=> NewAnalyzeCalls + NewAgentCalls = 1
      /\ reqSeq' \in {reqSeq, reqSeq + 1}
      /\ delivered' # delivered => NewAnalyzeCalls + NewAgentCalls = 0
      /\ CallsIssued' = reqSeq'
    ]_vars

\* two submissions, both ended by a rejected fetch, and no call under way
OneCallPerSubmitWitness ==
  /\ PanelControls
  /\ reqSeq = 2
  /\ Len(delivered) = 2
  /\ analyzeCalls = {}
  /\ lastResp = Rejected
  /\ prevOutcome = "Failure"
  /\ PanelOutcome = "Failure"

(***************************************************************************)
(* Properties of the entry set                                             *)
(***************************************************************************)
\* the entries of a list, as a set
EntrySet(es) == {es[i] : i \in DOMAIN es}

\* C25: a 2xx answer to an entries request replaces the entries held by the
\* filtered entries of the answered page and the pagination by the answer's:
\* an entry held before is held after only if the answer carries it.
EntriesReplaced ==
  [][\A c \in entryCalls :
       EntriesResponse(c, "ok") =>
         /\ EntrySet(entries') = PassingEntries[c.file, c.page, c.search, c.level]
         /\ Len(entries') = Cardinality(EntrySet(entries'))
         /\ pagination' = ServerPagination(c.file, c.page)
         /\ \A e \in EntrySet(entries) :
              e \notin PageSet[c.file, c.page] => e \notin EntrySet(entries')]_vars

\* the answer for the newly selected file has replaced the 50 entries of the
\* file shown before
EntriesReplacedWitness ==
  /\ PageSettled
  /\ selectedFile.id = 2
  /\ entries = ServerEntries(2, 1)
  /\ \A i \in DOMAIN entries : entries[i].file = 2
  /\ pagination = ServerPagination(2, 1)

(***************************************************************************)
(* Properties of the suggestions offered                                   *)
(***************************************************************************)
\* the first three elements of a list, fewer when it is shorter
FirstThree(list) == SubSeq(list, 1, Min(Len(list), 3))

\* C26: the suggestions held are a fetched list in the server's order; a
\* call that carries an issue_description was made by choosing one of the
\* first three of them, and carries the selected text and the active file.
SuggestionChosen ==
  [][ /\ suggestions' # <<>> => \E f \in Files : suggestions' = SuggestionsOf(f)
      /\ \A c \in analyzeCalls' \ analyzeCalls :
           c.issue_description # <<>> =>
             /\ \E i \in DOMAIN FirstThree(suggestions) :
                  c.issue_description = FirstThree(suggestions)[i]
             /\ c.text = analysisText
             /\ c.file_id = PanelFileId
             /\ loading'
    ]_vars

\* the third of four suggestions of file 1 was chosen while file 2 had become
\* the active file: the call carries that suggestion and file 2
SuggestionChosenWitness ==
  /\ PanelControls
  /\ suggestions = SuggestionsOf(1)
  /\ Len(suggestions) = 4
  /\ selectedFile.id = 2
  /\ loading
  /\ \E c \in analyzeCalls :
       /\ c.seq = reqSeq
       /\ c.issue_description = SuggestionsOf(1)[3]
       /\ c.text = analysisText
       /\ c.file_id = Num(2)

(***************************************************************************)
(* Properties of the application-level error                               *)
(***************************************************************************)
\* the answer that produced the panel's state is a 2xx answer with
\* success: false, an error and no demo_mode
ApplicationErrorAnswered ==
  /\ shown # 0
  /\ shown = reqSeq
  /\ lastResp.net = "resolve" /\ lastResp.ok /\ lastResp.parses
  /\ ~Truthy(lastResp.json.demo_mode)
  /\ lastResp.json.success = Bool(FALSE)
  /\ Truthy(lastResp.json.error)

\* C27: after such an answer the panel is in Failure and shows the error of
\* the answer; loading is false, the banner is not raised and neither Demo
\* nor Success content is rendered.
ApplicationErrorShown ==
  ApplicationErrorAnswered =>
    /\ ~ShownLoading
    /\ ShownError = <<>>
    /\ ShownOutcome = "Failure"
    /\ Classified(ShownAnalysis) = [variant |-> "Failure", content |-> lastResp.json.error]

ApplicationErrorWitness ==
  /\ ApplicationErrorAnswered
  /\ PanelControls
  /\ lastResp.json.error = ServerError
  /\ prevOutcome = "Success"
  /\ PanelOutcome = "Failure"

(***************************************************************************)
(* Properties of the failing network operations                            *)
(***************************************************************************)
\* C28: a rejected call, a non-2xx answer and an answer whose body is not
\* JSON are caught by the operation that made the call.  The entries fetch
\* and the two analysis submits end with their component's error message set
\* and its loading flag cleared, the suggestions fetch and the config fetch
\* leave their component as it was, and no failure changes the state of
\* another component.
FaultsContained ==
  [][ /\ \A c \in entryCalls, r \in EntryFaults :
           EntriesResponse(c, r) =>
             /\ lvError' # <<>> /\ ~lvLoading'
             /\ UNCHANGED <<entries, pagination, appVars, panelVars, suggestVars, agentVars>>
      /\ \A c \in analyzeCalls, r \in AnalyzeFaults :
           AnalyzeResponse(c, r) =>
             /\ PanelApplies(c) => error' # <<>> /\ ~loading' /\ analysis' = Null
             /\ ~PanelApplies(c) => UNCHANGED panelVars \/ analyzeCalls' # analyzeCalls
             /\ UNCHANGED <<appVars, viewerVars, suggestVars, agentVars>>
      /\ \A c \in agentCalls, r \in AnalyzeFaults :
           AgentResponse(c, r) =>
             /\ agentError' # <<>> /\ ~agentLoading' /\ agentAnalysis' = Null
             /\ UNCHANGED <<appVars, viewerVars, panelVars, suggestVars>>
      /\ \A c \in suggestCalls, r \in SuggestFaults :
           SuggestionsResponse(c, r) =>
             UNCHANGED <<suggestions, config, appVars, viewerVars, panelVars, agentVars>>
      /\ \A c \in configCalls, r \in ConfigFaults :
           ConfigResponse(c, r) =>
             UNCHANGED <<suggestions, config, appVars, viewerVars, panelVars, agentVars>>
    ]_vars

\* an entries fetch has failed on a body that is not JSON and an analysis
\* submit of the panel has failed, while the panel holds the suggestions and
\* the configuration it has loaded
FaultsContainedWitness ==
  /\ lvError = <<"Failed to load log entries: ", "Unexpected token">>
  /\ ~lvLoading
  /\ error # <<>>
  /\ ~loading
  /\ analysis = Null
  /\ suggestions # <<>>
  /\ config # Null

(***************************************************************************)
(* Properties of the configuration status                                  *)
(***************************************************************************)
\* the outcome and the content the panel shows for the answer r
AnswerShown(r) ==
  IF r.net = "resolve" /\ r.ok /\ r.parses
  THEN [outcome |-> normalize(r.json).variant, content |-> normalize(r.json).content]
  ELSE [outcome |-> "Failure", content |-> analyzeTextSettle([analysis |-> Null, loading |-> TRUE, error |-> <<>>], r).error]

PanelShows ==
  [outcome |-> PanelOutcome,
   content |-> IF analysis # Null THEN normalize(analysis).content ELSE error]

\* C29: the outcome and the content the panel shows for an analysis answer
\* are those of the answer, whatever configuration the panel holds when the
\* answer arrives, and the answer of a loadConfig call (or its failure)
\* changes neither: it changes at most the caption.
ConfigNotAuthoritative ==
  [][ /\ \A c \in analyzeCalls, r \in AnalyzeResponses :
           (AnalyzeResponse(c, r) /\ PanelApplies(c)) => PanelShows' = AnswerShown(r)
      /\ \A c \in configCalls, r \in ConfigResults :
           ConfigResponse(c, r) =>
             /\ PanelShows' = PanelShows
             /\ UNCHANGED <<panelVars, historyVars>>
    ]_vars

\* the panel holds a configuration that is not configured, its caption says
\* demo mode, and it shows the Success answer of its latest submission
ConfigNotAuthoritativeWitness ==
  /\ PanelControls
  /\ config = ConfigOf("unconfigured")
  /\ Caption = "Demo Mode - Configure API key for full functionality"
  /\ shown = reqSeq
  /\ PanelOutcome = "Success"

(***************************************************************************)
(* Properties of the submit controls                                       *)
(***************************************************************************)
\* C30: while the rendered panel is loading none of its submit controls can
\* act (Analyze, the suggestion buttons and Ask AI of the analysis panel,
\* the start button of the agent panel), and the rendered panel has at most
\* one analysis request awaiting its answer.
SubmitsDisabledWhileLoading ==
  /\ (PanelMounted /\ loading) =>
       /\ ~ENABLED ClickAnalyze
       /\ ~ENABLED handleCustomAnalysis
       /\ \A s \in SuggestionsShown : ~ENABLED handleSuggestionClick(s)
  /\ (root = "AgentHost" /\ agentLoading) => ~ENABLED agentAnalyze
  /\ Cardinality(OwnCalls) <= 1

\* the panel is loading with one request of its own awaiting its answer,
\* while it offers suggestions, a question is typed and a further submission
\* could still be made
SubmitsDisabledWitness ==
  /\ PanelControls
  /\ loading
  /\ Cardinality(OwnCalls) = 1
  /\ SuggestionsShown # {}
  /\ Trim(customQuestion) # <<>>
  /\ reqSeq < MaxRequests

(***************************************************************************)
(* Properties of the result and the panel's props                          *)
(***************************************************************************)
\* the step applies to the panel the answer of a call made with the text and
\* the file the panel is rendered with after the step
AnswerOfCurrentProps ==
  \E c \in analyzeCalls :
    /\ c \notin analyzeCalls'
    /\ shown' = c.seq
    /\ c.text = analysisText'
    /\ c.file_id = PanelFileId'

\* C31: a result held by the mounted panel belongs to the text and the file
\* the panel is rendered with: it arrives as the answer of a request made
\* with that text and that file, and it is held only as long as neither the
\* text nor the file changes.
ResultBelongsToProps ==
  [][ (PanelMounted' /\ analysis' # Null) =>
        \/ AnswerOfCurrentProps
        \/ /\ analysis' = analysis
           /\ analysisText' = analysisText
           /\ PanelFileId' = PanelFileId
    ]_vars

(***************************************************************************)
(* Properties of the file of a submission                                  *)
(***************************************************************************)
\* C32: every analysis request is made for a valid active file: a call of
\* analyzeText carries the id of the selected file, which the backend still
\* holds, and a call of agentAnalyze carries the id of a file the backend
\* still holds.
SubmitsForValidFile ==
  [][ /\ \A c \in analyzeCalls' \ analyzeCalls :
           /\ selectedFile # Null
           /\ c.file_id = Num(selectedFile.id)
           /\ selectedFile.id \in serverFiles
      /\ \A c \in agentCalls' \ agentCalls :
           /\ Truthy(c.file_id)
           /\ c.file_id.v \in serverFiles
    ]_vars

(***************************************************************************)
(* Properties of overlapping entries requests                              *)
(***************************************************************************)
\* C33: once every entries request has been answered and none of the
\* answers since the latest request was a failure, the entries and the
\* pagination held are those of the latest request: the current file, the
\* current page and the current level filter (no search term is submitted
\* here).
LatestEntriesRequestWins ==
  (ViewerControls /\ entryCalls = {} /\ lvError = <<>>) =>
    /\ entries = filterEntries(ServerEntries(selectedFile.id, currentPage), <<>>, levelFilter)
    /\ pagination = ServerPagination(selectedFile.id, currentPage)

(***************************************************************************)
(* Properties of the page requested                                        *)
(***************************************************************************)
\* C34: every entries request the viewer has under way asks for a page
\* within [1, max(pages, 1)] of the file it is made for, and so does the
\* current page for the selected file.
RequestedPageWithinBounds ==
  /\ \A c \in entryCalls : c.page \in 1..Max(ServerPages(c.file), 1)
  /\ (ViewerControls /\ entryCalls = {}) =>
       currentPage \in 1..Max(ServerPages(selectedFile.id), 1)

(***************************************************************************)
(* Properties of the requests of a filter change                           *)
(***************************************************************************)
\* C35: the Search button and a change of the level filter issue exactly one
\* entries request, for page 1, from whatever page they are used, and the
\* viewer is loading as long as a request is under way.
OneRequestPerFilterChange ==
  [][ /\ (handleSearch \/ \E l \in Levels : handleFilterChange(l)) =>
           /\ InFlight(entryCalls') = InFlight(entryCalls) + 1
           /\ \E c \in entryCalls' : c.page = 1 /\ c.level = levelFilter'
      /\ InFlight(entryCalls') > 0 => lvLoading'
    ]_vars

(***************************************************************************)
(* Properties of the submitted search term                                 *)
(***************************************************************************)
\* C36: as long as no search term is submitted, no entries request carries
\* one and the entries held are a page of the file narrowed by a level
\* filter alone, whatever is typed into the search box and whatever page is
\* navigated to.
TypedTermNotApplied ==
  /\ \A c \in entryCalls : c.search = <<>>
  /\ \E p \in 1..ServerPages(1), l \in Levels :
       entries = filterEntries(ServerEntries(1, p), <<>>, l)

(***************************************************************************)
(* Properties of closing the panel                                         *)
(***************************************************************************)
\* C37: a panel that has just been closed or mounted holds no result, no
\* error and no question and is not loading, and the answer of a call made
\* by a panel instance that is no longer the mounted one changes none of
\* these, whenever it arrives.
ClosedSessionDiscarded ==
  [][ /\ (showAnalysisPanel' # showAnalysisPanel \/ panelInst' # panelInst) =>
           /\ analysis' = Null /\ error' = <<>> /\ ~loading' /\ customQuestion' = <<>>
           /\ PanelOutcome' = "Idle"
      /\ \A c \in analyzeCalls :
           (c \notin analyzeCalls' /\ ~(PanelMounted /\ c.inst = panelInst)) =>
             UNCHANGED <<analysis, error, loading, customQuestion>>
    ]_vars

\* the reopened panel shows the Success answer of its own submission, and the
\* answer of the submission made before the close has arrived after it
ClosedSessionWitness ==
  /\ PanelMounted
  /\ panelInst = 2
  /\ Len(delivered) = 2
  /\ delivered[1] = [seq |-> 2, inst |-> 2]
  /\ delivered[2] = [seq |-> 1, inst |-> 1]
  /\ shown = 2
  /\ PanelOutcome = "Success"

(***************************************************************************)
(* Properties of overlapping suggestions requests                          *)
(***************************************************************************)
\* C38: once the suggestions requests of the mounted panel have all been
\* answered (each 2xx with the list of its file), the panel holds the list
\* of the selected file, in whatever order the answers arrived.
SuggestionsOfActiveFile ==
  (PanelMounted /\ selectedFile # Null /\ OwnSuggestCalls = {}) =>
    suggestions = SuggestionsOf(selectedFile.id)

(***************************************************************************)
(* Properties of the two panels side by side                               *)
(***************************************************************************)
\* C39: AIAnalysisPanel and AgentAnalysisPanel, given the same text, the
\* same fileId, the same submissions and the same answers, are always in the
\* same lifecycle state (Idle, Loading, Demo, Success or Failure), and hence
\* classify every answer into the same outcome.
SameController ==
  root = "SideBySide" => PanelOutcome = AgentOutcome

====
